---------------------------- MODULE Spec2Model ----------------------------
(***************************************************************************)
(* Pairing engine of the ritual file renamer: pair_files (image, order and *)
(* time branch) and pair_files_by_time of src/src/pairing.py, with both    *)
(* assignment policies of match_photos_to_videos (src/src/matching.py),    *)
(* scan_media_files (src/src/pairing.py) and the cached timestamp          *)
(* resolution of src/src/metadata.py.                                      *)
(*                                                                         *)
(* Times are whole seconds.  A path is a record [stem, ext]; file names    *)
(* have fixed-width stems, so Python's string order on path.name is the    *)
(* order on (stem, ext).  Similarity scores are in tenths.                 *)
(***************************************************************************)
EXTENDS Integers, Sequences, FiniteSets, TLC

\* ------------------------------------------------------------- bounds
\* Files in an input list.
MaxFiles == 4
\* created_time and st_birthtime range over 0..MaxTime.
MaxTime == 2
\* time_tolerance_seconds ranges over 0..MaxTol.
MaxTol == 2
\* Similarity scores range over 0..MaxScore.
MaxScore == 2
\* The large group has len(sub_labels) .. len(sub_labels) + MaxExtra videos.
MaxExtra == 2
\* Entries of a scanned directory.
MaxDir == 2
\* Scans of the directory in one process.
MaxScans == 2
\* External edits of files between scans.
MaxEdits == 1

\* -------------------------------------------------- program constants
\* time_tolerance_seconds: int = 60
DefaultTolerance == 60
\* threshold: float = 0.1, in tenths
Threshold == 1
\* @lru_cache(maxsize=128)
CacheMaxSize == 128

sub_labels ==
  << "a", "b", "c", "d", "e", "f", "g", "h", "i", "j", "k", "l", "m",
     "n", "o", "p", "q", "r", "s", "t", "u", "v", "w", "x", "y", "z" >>

IMAGE_EXT == "jpg"
VIDEO_EXT == "mp4"
\* An extension in neither IMAGE_EXTENSIONS nor VIDEO_EXTENSIONS.
OTHER_EXT == "txt"

\* Instants are naturals; these stand for Python's None, for an exception
\* leaving a function, and for a tag value strptime rejects.
None == -1
Raise == -2
Unparseable == -3

VARIABLES
  media_files,            \* the list handed to the pairing function
  mode,                   \* "by_time" (pair_files_by_time) or pair_files' mode
  time_tolerance_seconds, \* parameter of pair_files_by_time
  has_birthtime,          \* whether os.stat_result has st_birthtime here
  st_birthtime,           \* what path.stat().st_birthtime returned, per video path
  pc,                     \* position in the running function
  pairs,                  \* the result list under construction
  used_videos,            \* pair_files_by_time: claimed video paths
  sequence,               \* next sequence number
  photo_idx,              \* loop position over photos (1-based)
  video_idx,              \* time branch: loop position over videos (1-based)
  video_frames,           \* match_photos_to_videos: videos with a frame, in order
  photo_video_scores,     \* match_photos_to_videos: <<photo path, scores>> in order
  matches,                \* what match_photos_to_videos returned
  match_idx,              \* pair_files: loop position over matches (1-based)
  multi_video,            \* match_photos_to_videos: the multi_video argument
  similarity,             \* what compute_similarity returned: [photo, video, score]
  assign_idx,             \* match_photos_to_videos, 1:1: loop position over photos
  decoded,                \* files decoded so far: [path, ok]
  input_kind,             \* what input_dir names: "missing", "file" or "dir"
  directory,              \* the entries of input_dir, in enumeration order
  tool,                   \* state of exifread / ffprobe on this machine
  exif_cache,             \* lru_cache of get_exif_datetime, least recent first
  video_cache,            \* lru_cache of get_video_creation_time, least recent first
  scans,                  \* scans completed or failed so far
  edits,                  \* external edits of files so far
  resolved,               \* first result per path since the cache was last empty
  fresh,                  \* paths whose extraction ran during the latest scan
  reread,                 \* those of them that had been resolved before
  error,                  \* the exception that ended the run, "" if none
  run,                    \* 1 or 2: which run of the engine this is
  first_pairs,            \* the pairs the first run returned
  num_segments,           \* split_video: the num_segments argument
  duration,               \* split_video: what get_video_duration returns
  split_idx,              \* split_video: loop variable i
  output_files,           \* split_video: the list under construction
  written,                \* split_video: segment files present in output_dir
  dry_run,                \* rename_and_copy: the dry_run argument
  names,                  \* what the OCR has answered, per photo
  copy_idx,               \* rename_and_copy: position in pairs
  output_dir,             \* the files of the output directory: name and content
  stats,                  \* rename_and_copy: the statistics under construction
  self_photos,            \* gui: self.photos
  self_videos,            \* gui: self.videos
  self_pairs,             \* gui: self.pairs
  selected_photo_idx,     \* gui: self.selected_photo_idx, a position or None
  selected_video_idx,     \* gui: self.selected_video_idx, a position or None
  photo_items,            \* gui: the photo thumbnails on display
  video_items,            \* gui: the video thumbnails on display
  preview_btn,            \* gui: state of the preview button
  run_btn,                \* gui: state of the run button
  is_processing,          \* gui: self.is_processing
  preview_pc,             \* gui: position of the do_preview thread
  after_queue,            \* gui: callbacks handed to self.after(0, ...)
  last_preview,           \* the lists the last preview wrote
  last_op,                \* the handler that ran last, with its argument
  workers,                \* gui: the do_process threads started so far
  updating                \* gui: the _run calls waiting inside self.update()

vars ==
  << media_files, mode, time_tolerance_seconds, has_birthtime, st_birthtime,
     pc, pairs, used_videos, sequence, photo_idx, video_idx, video_frames,
     photo_video_scores, matches, match_idx, multi_video, similarity,
     assign_idx, decoded, input_kind, directory, tool, exif_cache,
     video_cache, scans, edits, resolved, fresh, reread, error, run,
     first_pairs, num_segments, duration, split_idx, output_files, written,
     dry_run, names, copy_idx, output_dir, stats, self_photos, self_videos,
     self_pairs, selected_photo_idx, selected_video_idx, photo_items,
     video_items, preview_btn, run_btn, is_processing, preview_pc,
     after_queue, last_preview, last_op, workers, updating >>

\* The state of split_video.
split_vars == << num_segments, duration, split_idx, output_files, written >>

\* The state of rename_and_copy.
copy_vars == << dry_run, names, copy_idx, output_dir, stats >>

\* The state of the window (RitualRenamerApp).
gui_vars ==
  << self_photos, self_videos, self_pairs, selected_photo_idx,
     selected_video_idx, photo_items, video_items, preview_btn, run_btn,
     is_processing, preview_pc, after_queue, last_preview,
     last_op, workers, updating >>

\* The state of the callers and collaborators of the engine.
aux_vars == << split_vars, copy_vars, gui_vars >>

\* What the pairing functions leave alone: the directory, the resolver's
\* caches and the scanner's state.
scan_vars ==
  << input_kind, directory, tool, exif_cache, video_cache, scans, edits,
     resolved, fresh, reread, error, run, first_pairs, aux_vars >>

\* ------------------------------------------------------------ helpers
Range(s) == {s[i] : i \in 1..Len(s)}

Min(a, b) == IF a <= b THEN a ELSE b

Permutations1(n) == {f \in [1..n -> 1..n] : \A i, j \in 1..n : f[i] = f[j] => i = j}

Identity(n) == [i \in 1..n |-> i]

\* Python's list.sort / sorted with an integer key: stable.  Ahead(j, i):
\* element j ends up ahead of element i.
StableSortByKey(s, key) ==
  LET n == Len(s)
      Ahead(j, i) == key[j] < key[i] \/ (key[j] = key[i] /\ j < i)
      pos == [i \in 1..n |-> Cardinality({j \in 1..n : Ahead(j, i)}) + 1]
  IN  [p \in 1..n |-> s[CHOOSE i \in 1..n : pos[i] = p]]

\* sort(reverse=True): descending, equal keys keep their original order.
StableSortByKeyDesc(s, key) ==
  LET n == Len(s)
      Ahead(j, i) == key[j] > key[i] \/ (key[j] = key[i] /\ j < i)
      pos == [i \in 1..n |-> Cardinality({j \in 1..n : Ahead(j, i)}) + 1]
  IN  [p \in 1..n |-> s[CHOOSE i \in 1..n : pos[i] = p]]

ExtRank(ext) == IF ext = IMAGE_EXT THEN 0 ELSE 1

\* path.name as a sort key: the stem first, then the extension.
NameKey(path) == 2 * path.stem + ExtRank(path.ext)

MediaFile(path, is_video, created_time, time_source) ==
  [path |-> path, is_video |-> is_video, created_time |-> created_time,
   time_source |-> time_source]

\* A constructor that writes the photo's instant into the video it is handed.
FilePairRestamped(photo, video, seq, sub) ==
  [photo |-> photo, video |-> [video EXCEPT !.created_time = photo.created_time],
   sequence |-> seq, sub_sequence |-> sub]

FilePair(photo, video, seq, sub) ==
  [photo |-> photo, video |-> video, sequence |-> seq, sub_sequence |-> sub]

photos == SelectSeq(media_files, LAMBDA f : ~f.is_video)

videos == SelectSeq(media_files, LAMBDA f : f.is_video)

\* str(n) for n >= 0
Digits == << "0", "1", "2", "3", "4", "5", "6", "7", "8", "9" >>

RECURSIVE Str(_)
Str(n) == IF n < 10 THEN Digits[n + 1] ELSE Str(n \div 10) \o Digits[(n % 10) + 1]

SubLabelWraps(idx) == sub_labels[(idx % Len(sub_labels)) + 1]

\* sub_labels[idx] if idx < len(sub_labels) else str(idx + 1)
SubLabel(idx) == IF idx < Len(sub_labels) THEN sub_labels[idx + 1] ELSE Str(idx + 1)

\* One FilePair for a single video, lettered FilePairs for several.
EmitGroup(photo, vids, seq) ==
  IF Len(vids) = 1
    THEN << FilePair(photo, vids[1], seq, "") >>
    ELSE [i \in 1..Len(vids) |-> FilePair(photo, vids[i], seq, SubLabel(i - 1))]


\* ------------------------------------------------ pair_files_by_time
AlwaysUnclaimed(video, used) == TRUE

\* `if video.path in used_videos: continue`
Unclaimed(video, used) == video.path \notin used

InWindowNoLower(photo, video, tolerance) ==
  video.created_time - photo.created_time <= tolerance

InWindowExclusive(photo, video, tolerance) ==
  LET time_diff == video.created_time - photo.created_time
  IN  0 <= time_diff /\ time_diff < tolerance

\* timedelta(0) <= time_diff <= tolerance
InWindow(photo, video, tolerance) ==
  LET time_diff == video.created_time - photo.created_time
  IN  0 <= time_diff /\ time_diff <= tolerance

\* An inner loop that stops at the first video in the window.
MatchFirstVideo(photo, vids, used, tolerance, matched) ==
  LET candidates == SelectSeq(vids, LAMBDA v : Unclaimed(v, used)
                                                /\ InWindow(photo, v, tolerance))
  IN  IF candidates = << >>
        THEN [matched_videos |-> matched, used_videos |-> used]
        ELSE [matched_videos |-> Append(matched, candidates[1]),
              used_videos |-> used \cup {candidates[1].path}]

\* The inner loop over videos for one photo: the videos it claims, in list
\* order, and used_videos afterwards.
RECURSIVE MatchVideos(_, _, _, _, _)
MatchVideos(photo, vids, used, tolerance, matched) ==
  IF vids = << >>
    THEN [matched_videos |-> matched, used_videos |-> used]
    ELSE LET video == Head(vids)
         IN  IF Unclaimed(video, used) /\ InWindow(photo, video, tolerance)
               THEN MatchVideos(photo, Tail(vids), used \cup {video.path},
                                tolerance, Append(matched, video))
               ELSE MatchVideos(photo, Tail(vids), used, tolerance, matched)

SortAsListed(vids) == vids

\* matched_videos.sort(key=lambda v: v.created_time)
SortByCreatedTime(vids) ==
  StableSortByKey(vids, [i \in 1..Len(vids) |-> vids[i].created_time])

SequenceAlwaysAdvances(matched, seq) == seq + 1

SequenceNeverAdvances(matched, seq) == seq

\* `continue` for a photo without videos, `sequence += 1` otherwise
SequenceAfterPhoto(matched, seq) == IF matched = << >> THEN seq ELSE seq + 1

PairsForPhoto(photo, matched, seq) ==
  IF matched = << >> THEN << >> ELSE EmitGroup(photo, SortByCreatedTime(matched), seq)

\* One iteration of `for photo in photos`.
ByTimePhoto ==
  /\ pc = "by_time"
  /\ photo_idx <= Len(photos)
  /\ LET photo == photos[photo_idx]
         m == MatchVideos(photo, videos, used_videos, time_tolerance_seconds, << >>)
     IN  /\ used_videos' = m.used_videos
         /\ pairs' = pairs \o PairsForPhoto(photo, m.matched_videos, sequence)
         /\ sequence' = SequenceAfterPhoto(m.matched_videos, sequence)
  /\ photo_idx' = photo_idx + 1
  /\ UNCHANGED << media_files, mode, time_tolerance_seconds, has_birthtime,
                  st_birthtime, pc, video_idx, video_frames,
                  photo_video_scores, matches, match_idx,
                  multi_video, similarity, assign_idx >>
  /\ UNCHANGED scan_vars
  /\ UNCHANGED decoded

\* The photo loop is exhausted: unmatched videos are reported, pairs returned.
ByTimeReturn ==
  /\ pc = "by_time"
  /\ photo_idx > Len(photos)
  /\ pc' = "done"
  /\ UNCHANGED << media_files, mode, time_tolerance_seconds, has_birthtime,
                  st_birthtime, pairs, used_videos, sequence, photo_idx,
                  video_idx, video_frames, photo_video_scores, matches, match_idx,
                  multi_video, similarity, assign_idx >>
  /\ UNCHANGED scan_vars
  /\ UNCHANGED decoded


\* ------------------------------------------- pair_files, time branch
\* photo.created_time <= video.created_time: pair them and advance both.
TimePair ==
  /\ pc = "time"
  /\ photo_idx <= Len(photos) /\ video_idx <= Len(videos)
  /\ LET photo == photos[photo_idx]
         video == videos[video_idx]
     IN  \/ /\ photo.created_time <= video.created_time
            /\ pairs' = Append(pairs, FilePair(photo, video, sequence, ""))
            /\ sequence' = sequence + 1
            /\ photo_idx' = photo_idx + 1
            /\ video_idx' = video_idx + 1
         \/ /\ ~(photo.created_time <= video.created_time)
            /\ video_idx' = video_idx + 1
            /\ UNCHANGED << pairs, sequence, photo_idx >>
  /\ UNCHANGED << media_files, mode, time_tolerance_seconds, has_birthtime,
                  st_birthtime, pc, used_videos, video_frames,
                  photo_video_scores, matches, match_idx,
                  multi_video, similarity, assign_idx >>
  /\ UNCHANGED scan_vars
  /\ UNCHANGED decoded

\* One of the lists is exhausted: the rest is reported, pairs returned.
TimeReturn ==
  /\ pc = "time"
  /\ ~(photo_idx <= Len(photos) /\ video_idx <= Len(videos))
  /\ pc' = "done"
  /\ UNCHANGED << media_files, mode, time_tolerance_seconds, has_birthtime,
                  st_birthtime, pairs, used_videos, sequence, photo_idx,
                  video_idx, video_frames, photo_video_scores, matches, match_idx,
                  multi_video, similarity, assign_idx >>
  /\ UNCHANGED scan_vars
  /\ UNCHANGED decoded

\* ------------------------------------------- pair_files, order mode
SortPhotosAsListed(ps) == ps

\* sorted(photos, key=lambda x: x.path.name)
SortByName(ps) == StableSortByKey(ps, [i \in 1..Len(ps) |-> NameKey(ps[i].path)])

\* sorted(videos, key=lambda x: x.path.stat().st_birthtime)
SortByBirthtime(vs, birthtime) ==
  StableSortByKey(vs, [i \in 1..Len(vs) |-> birthtime[vs[i].path]])

\* enumerate(zip(photos_sorted, videos_sorted), 1)
ZipPairs(photos_sorted, videos_sorted) ==
  [i \in 1..Min(Len(photos_sorted), Len(videos_sorted)) |->
     FilePair(photos_sorted[i], videos_sorted[i], i, "")]

\* The key function reads st_birthtime of every video: where os.stat_result
\* has no such attribute, the first video raises AttributeError.
OrderRaises == videos # << >> /\ ~has_birthtime

OrderPairs ==
  /\ pc = "order"
  /\ ~OrderRaises
  /\ \E birthtime \in [{f.path : f \in Range(videos)} -> 0..MaxTime] :
       /\ \A i \in 1..Len(directory) :
            directory[i].path \in DOMAIN birthtime =>
              birthtime[directory[i].path] = directory[i].st_birthtime
       /\ st_birthtime' = birthtime
       /\ pairs' = ZipPairs(SortByName(photos), SortByBirthtime(videos, birthtime))
  /\ pc' = "done"
  /\ UNCHANGED << media_files, mode, time_tolerance_seconds, has_birthtime,
                  used_videos, sequence, photo_idx, video_idx, video_frames,
                  photo_video_scores, matches, match_idx,
                  multi_video, similarity, assign_idx >>
  /\ UNCHANGED scan_vars
  /\ UNCHANGED decoded

OrderError ==
  /\ pc = "order"
  /\ OrderRaises
  /\ pc' = "error"
  /\ UNCHANGED << media_files, mode, time_tolerance_seconds, has_birthtime,
                  st_birthtime, pairs, used_videos, sequence, photo_idx,
                  video_idx, video_frames, photo_video_scores, matches, match_idx,
                  multi_video, similarity, assign_idx >>
  /\ UNCHANGED scan_vars
  /\ UNCHANGED decoded


\* ------------------------ match_photos_to_videos (multi_video=True)
KeptScoresAll(frames, score) ==
  LET all == [i \in 1..Len(frames) |-> [video |-> frames[i], score |-> score[i]]]
  IN  StableSortByKeyDesc(all, [i \in 1..Len(all) |-> all[i].score])


\* scores of one photo: entries at or above the threshold, best first.
KeptScores(frames, score) ==
  LET all == [i \in 1..Len(frames) |-> [video |-> frames[i], score |-> score[i]]]
      kept == SelectSeq(all, LAMBDA e : e.score >= Threshold)
  IN  StableSortByKeyDesc(kept, [i \in 1..Len(kept) |-> kept[i].score])

HasVideo(video_to_photo, video) ==
  \E i \in 1..Len(video_to_photo) : video_to_photo[i].video = video

IndexOf(video_to_photo, video) ==
  CHOOSE i \in 1..Len(video_to_photo) : video_to_photo[i].video = video

ConsiderAppends(video_to_photo, photo, video, score) ==
  Append(video_to_photo, [video |-> video, photo |-> photo, score |-> score])

ConsiderKeepsFirst(video_to_photo, photo, video, score) ==
  IF ~HasVideo(video_to_photo, video)
    THEN Append(video_to_photo, [video |-> video, photo |-> photo, score |-> score])
    ELSE video_to_photo

\* An update that also replaces the recorded photo on an equal score.
ConsiderOnTie(video_to_photo, photo, video, score) ==
  IF ~HasVideo(video_to_photo, video)
    THEN Append(video_to_photo, [video |-> video, photo |-> photo, score |-> score])
    ELSE LET i == IndexOf(video_to_photo, video)
         IN  IF score >= video_to_photo[i].score
               THEN [video_to_photo EXCEPT ![i] =
                       [video |-> video, photo |-> photo, score |-> score]]
               ELSE video_to_photo

\* video_to_photo[video_path] = (photo_path, score) when the video is new or
\* the score is strictly higher than the recorded one.
Consider(video_to_photo, photo, video, score) ==
  IF ~HasVideo(video_to_photo, video)
    THEN Append(video_to_photo, [video |-> video, photo |-> photo, score |-> score])
    ELSE LET i == IndexOf(video_to_photo, video)
         IN  IF score > video_to_photo[i].score
               THEN [video_to_photo EXCEPT ![i] =
                       [video |-> video, photo |-> photo, score |-> score]]
               ELSE video_to_photo

RECURSIVE ConsiderScores(_, _, _)
ConsiderScores(video_to_photo, photo, scores) ==
  IF scores = << >>
    THEN video_to_photo
    ELSE ConsiderScores(
           Consider(video_to_photo, photo, Head(scores).video, Head(scores).score),
           photo, Tail(scores))

\* for photo_path, scores in photo_video_scores.items(): ...
RECURSIVE VideoToPhoto(_, _)
VideoToPhoto(video_to_photo, pvs) ==
  IF pvs = << >>
    THEN video_to_photo
    ELSE VideoToPhoto(
           ConsiderScores(video_to_photo, Head(pvs).photo, Head(pvs).scores),
           Tail(pvs))

VideosAsWon(video_to_photo, photo) ==
  LET won == SelectSeq(video_to_photo, LAMBDA e : e.photo = photo)
  IN  [i \in 1..Len(won) |-> [video |-> won[i].video, score |-> won[i].score]]

\* photo_to_videos[photo], then videos.sort(key=lambda x: x[0].name)
VideosOf(video_to_photo, photo) ==
  LET won == SelectSeq(video_to_photo, LAMBDA e : e.photo = photo)
      vs == [i \in 1..Len(won) |-> [video |-> won[i].video, score |-> won[i].score]]
  IN  StableSortByKey(vs, [i \in 1..Len(vs) |-> NameKey(vs[i].video)])

\* for photo_path in photo_paths: if photo_path in photo_to_videos: ...
RECURSIVE GroupByPhoto(_, _)
GroupByPhoto(video_to_photo, photo_paths) ==
  IF photo_paths = << >>
    THEN << >>
    ELSE LET vs == VideosOf(video_to_photo, Head(photo_paths))
             rest == GroupByPhoto(video_to_photo, Tail(photo_paths))
         IN  IF vs = << >>
               THEN rest
               ELSE << [photo |-> Head(photo_paths), videos |-> vs] >> \o rest

MatchMultiVideo(pvs, photo_paths) ==
  GroupByPhoto(VideoToPhoto(<< >>, pvs), photo_paths)

\* ------------------------------------------- pair_files, image mode
photo_paths == [i \in 1..Len(photos) |-> photos[i].path]

video_paths == [i \in 1..Len(videos) |-> videos[i].path]

photo_map(path) == CHOOSE f \in Range(photos) : f.path = path

video_map(path) == CHOOSE f \in Range(videos) : f.path = path

\* A file decodes as it did before: its content has not changed.
Decodes(path, ok) == \A r \in decoded : r.path = path => r.ok = ok

\* compute_similarity is a function of the two images.
Scores(photo, video, score) ==
  \A r \in similarity : (r.photo = photo /\ r.video = video) => r.score = score

FramesOfAll(paths, ok) == paths

\* video_frames: the videos, by position in ok, whose frame was read.
FramesOf(paths, ok) ==
  SelectSeq(paths, LAMBDA vp : \E i \in ok : paths[i] = vp)

\* extract_video_frame for every video: a video whose frame cannot be read
\* gets no entry in video_frames.
ImageExtractFrames ==
  /\ pc = "image_frames"
  /\ \E ok \in SUBSET (1..Len(videos)) :
       /\ \A i \in 1..Len(videos) : Decodes(video_paths[i], i \in ok)
       /\ video_frames' = FramesOf(video_paths, ok)
       /\ decoded' = decoded \cup
            {[path |-> video_paths[i], ok |-> i \in ok] : i \in 1..Len(videos)}
  /\ pc' = "image_score"
  /\ UNCHANGED << media_files, mode, time_tolerance_seconds, has_birthtime,
                  st_birthtime, pairs, used_videos, sequence, photo_idx,
                  video_idx, photo_video_scores, matches, match_idx,
                  multi_video, similarity, assign_idx >>
  /\ UNCHANGED scan_vars

\* One iteration of `for photo_path in photo_paths`: the photo cannot be
\* loaded, or it is scored against every frame.
ImageScorePhoto ==
  /\ pc = "image_score"
  /\ photo_idx <= Len(photos)
  /\ \/ /\ Decodes(photo_paths[photo_idx], FALSE)
        /\ decoded' = decoded \cup {[path |-> photo_paths[photo_idx], ok |-> FALSE]}
        /\ UNCHANGED << photo_video_scores, similarity >>
     \/ \E score \in [1..Len(video_frames) -> 0..MaxScore] :
          /\ Decodes(photo_paths[photo_idx], TRUE)
          /\ \A i \in 1..Len(video_frames) :
               Scores(photo_paths[photo_idx], video_frames[i], score[i])
          /\ decoded' = decoded \cup {[path |-> photo_paths[photo_idx], ok |-> TRUE]}
          /\ similarity' = similarity \cup
               {[photo |-> photo_paths[photo_idx], video |-> video_frames[i],
                 score |-> score[i]] : i \in 1..Len(video_frames)}
          /\ photo_video_scores' =
               Append(photo_video_scores,
                      [photo |-> photo_paths[photo_idx],
                       scores |-> KeptScores(video_frames, score)])
  /\ photo_idx' = photo_idx + 1
  /\ UNCHANGED << media_files, mode, time_tolerance_seconds, has_birthtime,
                  st_birthtime, pc, pairs, used_videos, sequence, video_idx,
                  video_frames, matches, match_idx, multi_video, assign_idx >>
  /\ UNCHANGED scan_vars

\* Every photo is scored and multi_video is set: the videos are assigned and
\* the matches returned, to pair_files or to the direct caller.
ImageAssign ==
  /\ pc = "image_score"
  /\ photo_idx > Len(photos)
  /\ multi_video
  /\ matches' = MatchMultiVideo(photo_video_scores, photo_paths)
  /\ pc' = IF mode = "match" THEN "done" ELSE "image_emit"
  /\ UNCHANGED << media_files, mode, time_tolerance_seconds, has_birthtime,
                  st_birthtime, pairs, used_videos, sequence, photo_idx,
                  video_idx, video_frames, photo_video_scores, match_idx,
                  multi_video, similarity, assign_idx >>
  /\ UNCHANGED scan_vars
  /\ UNCHANGED decoded

\* ------------------------ match_photos_to_videos (multi_video=False)
InScores(pvs, photo) == \E i \in 1..Len(pvs) : pvs[i].photo = photo

\* photo_video_scores[photo_path]
ScoresOf(pvs, photo) == pvs[CHOOSE i \in 1..Len(pvs) : pvs[i].photo = photo].scores

FirstCandidate(scores, used) == IF scores = << >> THEN << >> ELSE << Head(scores) >>

\* The first entry of scores whose video is not in used_videos, as a list of
\* at most one entry.
RECURSIVE FirstUnused(_, _)
FirstUnused(scores, used) ==
  IF scores = << >>
    THEN << >>
    ELSE IF Head(scores).video \notin used
           THEN << Head(scores) >>
           ELSE FirstUnused(Tail(scores), used)

\* One iteration of `for photo_path in photo_paths` of the 1:1 branch.
StrictPhoto ==
  /\ pc = "image_score"
  /\ photo_idx > Len(photos)
  /\ ~multi_video
  /\ assign_idx <= Len(photos)
  /\ LET photo_path == photo_paths[assign_idx]
         found == IF InScores(photo_video_scores, photo_path)
                    THEN FirstUnused(ScoresOf(photo_video_scores, photo_path),
                                     used_videos)
                    ELSE << >>
     IN  IF found = << >>
           THEN UNCHANGED << matches, used_videos >>
           ELSE /\ matches' = Append(matches, [photo |-> photo_path, videos |-> found])
                /\ used_videos' = used_videos \cup {found[1].video}
  /\ assign_idx' = assign_idx + 1
  /\ UNCHANGED << media_files, mode, time_tolerance_seconds, has_birthtime,
                  st_birthtime, pc, pairs, sequence, photo_idx, video_idx,
                  video_frames, photo_video_scores, match_idx, multi_video,
                  similarity >>
  /\ UNCHANGED scan_vars
  /\ UNCHANGED decoded

\* The 1:1 loop is exhausted: results is returned.
StrictReturn ==
  /\ pc = "image_score"
  /\ photo_idx > Len(photos)
  /\ ~multi_video
  /\ assign_idx > Len(photos)
  /\ pc' = "done"
  /\ UNCHANGED << media_files, mode, time_tolerance_seconds, has_birthtime,
                  st_birthtime, pairs, used_videos, sequence, photo_idx,
                  video_idx, video_frames, photo_video_scores, matches,
                  match_idx, multi_video, similarity, assign_idx >>
  /\ UNCHANGED scan_vars
  /\ UNCHANGED decoded

\* One iteration of `for photo_path, video_list in matches`.
ImageEmit ==
  /\ pc = "image_emit"
  /\ match_idx <= Len(matches)
  /\ LET match == matches[match_idx]
         vids == [i \in 1..Len(match.videos) |-> video_map(match.videos[i].video)]
     IN  pairs' = pairs \o EmitGroup(photo_map(match.photo), vids, sequence)
  /\ sequence' = sequence + 1
  /\ match_idx' = match_idx + 1
  /\ UNCHANGED << media_files, mode, time_tolerance_seconds, has_birthtime,
                  st_birthtime, pc, used_videos, photo_idx, video_idx,
                  video_frames, photo_video_scores, matches,
                  multi_video, similarity, assign_idx >>
  /\ UNCHANGED scan_vars
  /\ UNCHANGED decoded

ImageReturn ==
  /\ pc = "image_emit"
  /\ match_idx > Len(matches)
  /\ pc' = "done"
  /\ UNCHANGED << media_files, mode, time_tolerance_seconds, has_birthtime,
                  st_birthtime, pairs, used_videos, sequence, photo_idx,
                  video_idx, video_frames, photo_video_scores, matches, match_idx,
                  multi_video, similarity, assign_idx >>
  /\ UNCHANGED scan_vars
  /\ UNCHANGED decoded


\* ------------------------------------------------------ the inputs
Modes == {"by_time", "image", "order", "time"}

\* created_time is read by the time pairings only; the other modes get
\* files of one instant.
TimesFor(m) == IF m \in {"by_time", "time"} THEN 0..MaxTime ELSE {0}

\* Photo names are compared in order mode only, video names in image mode
\* only: there the names come in every order, elsewhere in list order.
PhotoStems(m, n) == IF m = "order" THEN Permutations1(n) ELSE {Identity(n)}

VideoStems(m, n) ==
  IF m \in {"image", "match"} THEN Permutations1(n) ELSE {Identity(n)}

TolerancesFor(m) == IF m = "by_time" THEN 0..MaxTol ELSE {DefaultTolerance}

\* st_birthtime is read in order mode only.
PlatformsFor(m) == IF m = "order" THEN BOOLEAN ELSE {TRUE}

\* How many files of position i's kind stand at or before position i.
RankInKind(kinds, i) == Cardinality({j \in 1..i : kinds[j] = kinds[i]})

CountKind(kinds, k) == Cardinality({j \in DOMAIN kinds : kinds[j] = k})

\* A list of media files with pairwise distinct paths, as a scan yields.
Files(kinds, times, photo_stems, video_stems) ==
  [i \in DOMAIN kinds |->
     IF kinds[i]
       THEN MediaFile([stem |-> video_stems[RankInKind(kinds, i)], ext |-> VIDEO_EXT],
                      TRUE, times[i], "filesystem")
       ELSE MediaFile([stem |-> photo_stems[RankInKind(kinds, i)], ext |-> IMAGE_EXT],
                      FALSE, times[i], "filesystem")]

\* A photo with one video at instant 0, then a photo with
\* len(sub_labels) + k videos, 0 <= k <= MaxExtra, all at instant MaxTime.
LargeGroup(k) ==
  LET n == 3 + Len(sub_labels) + k
      kinds == [i \in 1..n |-> i = 2 \/ i > 3]
  IN  Files(kinds, [i \in 1..n |-> IF i <= 2 THEN 0 ELSE MaxTime],
            Identity(2), Identity(n - 2))

Locals ==
  /\ pc = "start"
  /\ pairs = << >>
  /\ used_videos = {}
  /\ sequence = 1
  /\ photo_idx = 1
  /\ video_idx = 1
  /\ video_frames = << >>
  /\ photo_video_scores = << >>
  /\ matches = << >>
  /\ match_idx = 1
  /\ st_birthtime = << >>
  /\ assign_idx = 1

\* No video is being split.
NoSplit ==
  /\ num_segments = 0
  /\ duration = None
  /\ split_idx = 0
  /\ output_files = << >>
  /\ written = {}

\* Nothing has been renamed or copied.
NoCopy ==
  /\ dry_run = FALSE
  /\ names = {}
  /\ copy_idx = 1
  /\ output_dir = {}
  /\ stats = [success |-> 0, ocr_failed |-> 0, errors |-> 0]

\* RitualRenamerApp.__init__: empty lists, nothing selected, no thumbnail,
\* both buttons enabled, no thread.
NoGui ==
  /\ self_photos = << >>
  /\ self_videos = << >>
  /\ self_pairs = << >>
  /\ selected_photo_idx = None
  /\ selected_video_idx = None
  /\ photo_items = << >>
  /\ video_items = << >>
  /\ preview_btn = "normal"
  /\ run_btn = "normal"
  /\ is_processing = FALSE
  /\ preview_pc = "idle"
  /\ after_queue = << >>
  /\ last_preview = [photos |-> << >>, videos |-> << >>]
  /\ last_op = [op |-> "init"]
  /\ workers = << >>
  /\ updating = 0

\* The callers and collaborators of the engine at rest.
NoAux ==
  /\ NoSplit
  /\ NoCopy
  /\ NoGui

\* A pairing function called on a list of the caller's making: nothing has
\* been scanned, resolved or decoded.
NoScan ==
  /\ similarity = {}
  /\ decoded = {}
  /\ input_kind = "dir"
  /\ directory = << >>
  /\ tool = "ok"
  /\ exif_cache = << >>
  /\ video_cache = << >>
  /\ scans = 0
  /\ edits = 0
  /\ resolved = {}
  /\ fresh = {}
  /\ reread = {}
  /\ error = ""
  /\ run = 1
  /\ first_pairs = << >>
  /\ NoAux

InitSmall ==
  /\ mode \in Modes
  /\ \E n \in 0..MaxFiles :
       \E kinds \in [1..n -> BOOLEAN] :
         \E times \in [1..n -> TimesFor(mode)] :
           \E ps \in PhotoStems(mode, CountKind(kinds, FALSE)) :
             \E vs \in VideoStems(mode, CountKind(kinds, TRUE)) :
               media_files = Files(kinds, times, ps, vs)
  /\ time_tolerance_seconds \in TolerancesFor(mode)
  /\ has_birthtime \in PlatformsFor(mode)
  /\ multi_video = TRUE
  /\ Locals
  /\ NoScan

InitLarge ==
  /\ mode = "by_time"
  /\ \E k \in 0..MaxExtra : media_files = LargeGroup(k)
  /\ time_tolerance_seconds \in TolerancesFor(mode)
  /\ has_birthtime = TRUE
  /\ multi_video = TRUE
  /\ Locals
  /\ NoScan

Init == InitSmall \/ InitLarge

\* The function is entered: pairs = [], the photos and videos are split
\* off, and the mode selects the branch.
Enter ==
  /\ pc = "start"
  /\ pc' = CASE mode = "by_time" -> "by_time"
             [] mode \in {"image", "match"} -> "image_frames"
             [] mode = "order" -> "order"
             [] OTHER -> "time"
  /\ UNCHANGED << media_files, mode, time_tolerance_seconds, has_birthtime,
                  st_birthtime, pairs, used_videos, sequence, photo_idx,
                  video_idx, video_frames, photo_video_scores, matches,
                  match_idx,
                  multi_video, similarity, assign_idx >>
  /\ UNCHANGED scan_vars
  /\ UNCHANGED decoded

Next ==
  \/ Enter
  \/ ByTimePhoto
  \/ ByTimeReturn
  \/ TimePair
  \/ TimeReturn
  \/ OrderPairs
  \/ OrderError
  \/ ImageExtractFrames
  \/ ImageScorePhoto
  \/ ImageAssign
  \/ ImageEmit
  \/ ImageReturn

Spec == Init /\ [][Next]_vars

\* ---------------------- match_photos_to_videos called on its own
\* photo_paths and video_paths of at most MaxFiles paths together, with
\* either assignment policy.
InitMatch ==
  /\ mode = "match"
  /\ \E n \in 0..MaxFiles : \E p \in 0..n :
       \E vs \in VideoStems(mode, n - p) :
         media_files =
           Files([i \in 1..n |-> i > p], [i \in 1..n |-> 0], Identity(p), vs)
  /\ multi_video \in BOOLEAN
  /\ time_tolerance_seconds = DefaultTolerance
  /\ has_birthtime = TRUE
  /\ Locals
  /\ NoScan

NextMatch ==
  \/ Enter
  \/ ImageExtractFrames
  \/ ImageScorePhoto
  \/ ImageAssign
  \/ StrictPhoto
  \/ StrictReturn

SpecMatch == InitMatch /\ [][NextMatch]_vars


\* ------------------------------------------------------- metadata.py
\* A directory entry is [path, is_file, embedded, st_birthtime, st_mtime]:
\* embedded lists the values of the date tags (keys) the file carries, in
\* the order the code tries them, an instant or Unparseable each.
ToolStates == {"ok", "missing", "error", "timeout"}

\* The first value strptime accepts, None if there is none.
RECURSIVE FirstParseable(_)
FirstParseable(values) ==
  IF values = << >>
    THEN None
    ELSE IF Head(values) \in Nat
           THEN Head(values)
           ELSE FirstParseable(Tail(values))

ExifReadRaises(tool_state, embedded) ==
  IF tool_state = "missing"
    THEN Raise
    ELSE IF tool_state = "error" THEN None ELSE FirstParseable(embedded)

\* Body of get_exif_datetime: ImportError and any other exception give None.
ExifRead(tool_state, embedded) ==
  IF tool_state \in {"missing", "error"} THEN None ELSE FirstParseable(embedded)

VideoProbeIgnoresReturnCode(tool_state, embedded) ==
  IF tool_state \in {"missing", "timeout"}
    THEN None
    ELSE FirstParseable(embedded)

\* Body of get_video_creation_time: a missing ffprobe, a timeout, a non-zero
\* return code and any other exception give None.
VideoProbe(tool_state, embedded) ==
  IF tool_state \in {"missing", "error", "timeout"}
    THEN None
    ELSE FirstParseable(embedded)

CacheHas(cache, path) == \E i \in 1..Len(cache) : cache[i].path = path

CacheValue(cache, path) ==
  cache[CHOOSE i \in 1..Len(cache) : cache[i].path = path].value

\* A hit makes the entry the most recently used one.
CacheTouch(cache, path) ==
  SelectSeq(cache, LAMBDA e : e.path # path)
    \o << [path |-> path, value |-> CacheValue(cache, path)] >>

\* A miss stores the value; a full cache drops its least recently used entry.
CacheStore(cache, path, value) ==
  IF Len(cache) >= CacheMaxSize
    THEN Append(Tail(cache), [path |-> path, value |-> value])
    ELSE Append(cache, [path |-> path, value |-> value])

CachedForgets(cache, path, computed) ==
  IF CacheHas(cache, path)
    THEN [value |-> None, cache |-> CacheTouch(cache, path), read |-> FALSE]
    ELSE IF computed = Raise
           THEN [value |-> Raise, cache |-> cache, read |-> TRUE]
           ELSE [value |-> computed,
                 cache |-> CacheStore(cache, path, computed), read |-> TRUE]

\* A call of an lru_cache'd function whose body would give `computed`: the
\* value, the cache afterwards, and whether the body ran.
Cached(cache, path, computed) ==
  IF CacheHas(cache, path)
    THEN [value |-> CacheValue(cache, path),
          cache |-> CacheTouch(cache, path), read |-> FALSE]
    ELSE IF computed = Raise
           THEN [value |-> Raise, cache |-> cache, read |-> TRUE]
           ELSE [value |-> computed,
                 cache |-> CacheStore(cache, path, computed), read |-> TRUE]

\* getattr(stat, 'st_birthtime', stat.st_mtime)
get_filesystem_time(entry, birth) ==
  IF birth THEN entry.st_birthtime ELSE entry.st_mtime

\* get_media_datetime on the cache of the file's kind.
get_media_datetime(entry, is_video, cache, tool_state, birth) ==
  LET call == Cached(cache, entry.path,
                     IF is_video THEN VideoProbe(tool_state, entry.embedded)
                                 ELSE ExifRead(tool_state, entry.embedded))
  IN  IF call.value = Raise
        THEN [raised |-> TRUE, created_time |-> None, time_source |-> "",
              cache |-> call.cache, read |-> call.read]
        ELSE IF call.value # None
               THEN [raised |-> FALSE, created_time |-> call.value,
                     time_source |-> IF is_video THEN "video_meta" ELSE "exif",
                     cache |-> call.cache, read |-> call.read]
               ELSE [raised |-> FALSE,
                     created_time |-> get_filesystem_time(entry, birth),
                     time_source |-> "filesystem",
                     cache |-> call.cache, read |-> call.read]

\* ------------------------------------------------- scan_media_files
Supported(entry) == entry.is_file /\ entry.path.ext \in {IMAGE_EXT, VIDEO_EXT}

\* for file_path in input_path.iterdir(): ... media_files.append(media_file)
RECURSIVE ScanEntries(_, _)
ScanEntries(entries, st) ==
  IF entries = << >> \/ st.raised
    THEN st
    ELSE LET entry == Head(entries)
             is_video == entry.path.ext = VIDEO_EXT
             r == get_media_datetime(entry, is_video,
                                     IF is_video THEN st.video_cache
                                                 ELSE st.exif_cache,
                                     tool, has_birthtime)
         IN  IF ~Supported(entry)
               THEN ScanEntries(Tail(entries), st)
               ELSE ScanEntries(Tail(entries),
                      [media_files |->
                         IF r.raised
                           THEN st.media_files
                           ELSE Append(st.media_files,
                                       MediaFile(entry.path, is_video,
                                                 r.created_time, r.time_source)),
                       exif_cache |-> IF is_video THEN st.exif_cache ELSE r.cache,
                       video_cache |-> IF is_video THEN r.cache ELSE st.video_cache,
                       fresh |-> IF r.read THEN st.fresh \cup {entry.path}
                                           ELSE st.fresh,
                       raised |-> r.raised])

AsEnumerated(files) == files

\* media_files.sort(key=lambda x: x.created_time)
SortMediaFiles(files) ==
  StableSortByKey(files, [i \in 1..Len(files) |-> files[i].created_time])

\* The first (instant, source) each path got since the cache was last empty.
FirstResults(files) ==
  resolved \cup
    {[path |-> f.path, created_time |-> f.created_time,
      time_source |-> f.time_source] :
       f \in {g \in Range(files) : \A r \in resolved : r.path # g.path}}

\* scan_media_files(input_dir), from the call to the return or the exception.
ScanMediaFiles ==
  /\ pc = "scan"
  /\ scans < MaxScans
  /\ scans' = scans + 1
  /\ IF input_kind = "missing"
       THEN /\ pc' = "error"
            /\ error' = "FileNotFoundError"
            /\ UNCHANGED << media_files, exif_cache, video_cache, fresh, reread,
                            resolved >>
       ELSE IF input_kind = "file"
         THEN /\ pc' = "error"
              /\ error' = "NotADirectoryError"
              /\ UNCHANGED << media_files, exif_cache, video_cache, fresh,
                              reread, resolved >>
         ELSE LET st == ScanEntries(directory,
                          [media_files |-> << >>, exif_cache |-> exif_cache,
                           video_cache |-> video_cache, fresh |-> {},
                           raised |-> FALSE])
              IN  /\ exif_cache' = st.exif_cache
                  /\ video_cache' = st.video_cache
                  /\ fresh' = st.fresh
                  /\ reread' = {q \in st.fresh : \E r \in resolved : r.path = q}
                  /\ IF st.raised
                       THEN /\ pc' = "error"
                            /\ error' = "get_media_datetime"
                            /\ UNCHANGED << media_files, resolved >>
                       ELSE /\ media_files' = SortMediaFiles(st.media_files)
                            /\ resolved' = FirstResults(st.media_files)
                            /\ pc' = IF mode = "scan" THEN "scan" ELSE "start"
                            /\ UNCHANGED error
  /\ UNCHANGED << mode, time_tolerance_seconds, has_birthtime, st_birthtime,
                  pairs, used_videos, sequence, photo_idx, video_idx,
                  video_frames, photo_video_scores, matches, match_idx,
                  multi_video, similarity, assign_idx, decoded, input_kind,
                  directory, tool, edits, run, first_pairs >>
  /\ UNCHANGED aux_vars

\* clear_cache()
ClearCache ==
  /\ pc = "scan"
  /\ exif_cache' = << >>
  /\ video_cache' = << >>
  /\ resolved' = {}
  /\ UNCHANGED << media_files, mode, time_tolerance_seconds, has_birthtime,
                  st_birthtime, pc, pairs, used_videos, sequence, photo_idx,
                  video_idx, video_frames, photo_video_scores, matches,
                  match_idx, multi_video, similarity, assign_idx, decoded,
                  input_kind, directory, tool, scans, edits, fresh, reread,
                  error, run, first_pairs >>
  /\ UNCHANGED aux_vars

\* ------------------------------------------------ scanned directories
EmbeddedValues ==
  { << >>, << Unparseable >>, << MaxTime >>, << Unparseable, MaxTime >> }

FsTimes == {0, MaxTime}

DirEntry(stem, ext, is_file, embedded, t) ==
  [path |-> [stem |-> stem, ext |-> ext], is_file |-> is_file,
   embedded |-> embedded, st_birthtime |-> t, st_mtime |-> t]

\* What one entry can be where the tools work: a photo or a video with any
\* embedded values (and any filesystem time if none of them parses), a file
\* of another type, or a subdirectory.
EntryChoices ==
  {c \in {[ext |-> x, is_file |-> TRUE, embedded |-> e, t |-> t] :
            x \in {IMAGE_EXT, VIDEO_EXT}, e \in EmbeddedValues, t \in FsTimes} :
     FirstParseable(c.embedded) # None => c.t = 0}
  \cup {[ext |-> OTHER_EXT, is_file |-> TRUE, embedded |-> << >>, t |-> 0],
        [ext |-> IMAGE_EXT, is_file |-> FALSE, embedded |-> << >>, t |-> 0]}

\* What one entry is where a tool fails: a photo or a video, with or without
\* an embedded instant.
EntryChoicesNoTool ==
  {[ext |-> x, is_file |-> TRUE, embedded |-> e, t |-> t] :
     x \in {IMAGE_EXT, VIDEO_EXT}, e \in {<< >>, << MaxTime >>}, t \in FsTimes}

Directory(choice) ==
  [i \in DOMAIN choice |->
     DirEntry(i, choice[i].ext, choice[i].is_file, choice[i].embedded,
              choice[i].t)]

\* An external program rewrites a file: the embedded instant is removed or
\* written, and the modification time changes.
EditFile ==
  /\ pc = "scan"
  /\ edits < MaxEdits
  /\ \E i \in 1..Len(directory) :
       /\ Supported(directory[i])
       /\ \E e \in {<< >>, << MaxTime >>} \ {directory[i].embedded} :
          \E t \in FsTimes :
            /\ t # directory[i].st_mtime
            /\ directory' =
                 [directory EXCEPT ![i].embedded = e, ![i].st_mtime = t]
  /\ edits' = edits + 1
  /\ UNCHANGED << media_files, mode, time_tolerance_seconds, has_birthtime,
                  st_birthtime, pc, pairs, used_videos, sequence, photo_idx,
                  video_idx, video_frames, photo_video_scores, matches,
                  match_idx, multi_video, similarity, assign_idx, decoded,
                  input_kind, tool, exif_cache, video_cache, scans, resolved,
                  fresh, reread, error, run, first_pairs >>
  /\ UNCHANGED aux_vars

\* The state of a process that has scanned nothing yet.
ScanLocals ==
  /\ mode = "scan"
  /\ pc = "scan"
  /\ media_files = << >>
  /\ time_tolerance_seconds = DefaultTolerance
  /\ multi_video = TRUE
  /\ pairs = << >>
  /\ used_videos = {}
  /\ sequence = 1
  /\ photo_idx = 1
  /\ video_idx = 1
  /\ video_frames = << >>
  /\ photo_video_scores = << >>
  /\ matches = << >>
  /\ match_idx = 1
  /\ st_birthtime = << >>
  /\ assign_idx = 1
  /\ similarity = {}
  /\ decoded = {}
  /\ exif_cache = << >>
  /\ video_cache = << >>
  /\ scans = 0
  /\ edits = 0
  /\ resolved = {}
  /\ fresh = {}
  /\ reread = {}
  /\ error = ""
  /\ run = 1
  /\ first_pairs = << >>
  /\ NoAux

InitScan ==
  /\ input_kind \in {"missing", "file", "dir"}
  /\ IF input_kind = "dir"
       THEN /\ tool \in ToolStates
            /\ \E n \in 0..MaxDir :
                 \E choice \in [1..n -> IF tool = "ok" THEN EntryChoices
                                                      ELSE EntryChoicesNoTool] :
                   directory = Directory(choice)
            /\ has_birthtime \in IF tool = "ok" THEN BOOLEAN ELSE {TRUE}
       ELSE /\ directory = << >>
            /\ tool = "ok"
            /\ has_birthtime = TRUE
  /\ ScanLocals


NextScan ==
  \/ ScanMediaFiles
  \/ ClearCache
  \/ EditFile

SpecScan == InitScan /\ [][NextScan]_vars

\* ------------------------------------ the engine run twice in a process
\* What one entry of the directory can be, by the fields the mode reads:
\* instants for the time pairings, st_birthtime for order mode.
RunEntryChoices(m) ==
  {c \in {[ext |-> x, is_file |-> TRUE, embedded |-> e, t |-> t] :
            x \in {IMAGE_EXT, VIDEO_EXT},
            e \in IF m \in {"by_time", "time"} THEN {<< >>, << MaxTime >>}
                                              ELSE {<< >>},
            t \in IF m = "image" THEN {0} ELSE FsTimes} :
     FirstParseable(c.embedded) # None => c.t = 0}

InitRun ==
  /\ mode \in Modes
  /\ input_kind = "dir"
  /\ \E n \in 0..(MaxDir + 1) : \E choice \in [1..n -> RunEntryChoices(mode)] :
       directory = Directory(choice)
  /\ tool = "ok"
  /\ time_tolerance_seconds \in TolerancesFor(mode)
  /\ has_birthtime \in PlatformsFor(mode)
  /\ multi_video = TRUE
  /\ media_files = << >>
  /\ pc = "scan"
  /\ pairs = << >>
  /\ used_videos = {}
  /\ sequence = 1
  /\ photo_idx = 1
  /\ video_idx = 1
  /\ video_frames = << >>
  /\ photo_video_scores = << >>
  /\ matches = << >>
  /\ match_idx = 1
  /\ st_birthtime = << >>
  /\ assign_idx = 1
  /\ similarity = {}
  /\ decoded = {}
  /\ exif_cache = << >>
  /\ video_cache = << >>
  /\ scans = 0
  /\ edits = 0
  /\ resolved = {}
  /\ fresh = {}
  /\ reread = {}
  /\ error = ""
  /\ run = 1
  /\ first_pairs = << >>
  /\ NoAux

\* The first run has returned its pairs: the caller keeps them and runs
\* scan_media_files and the pairing function again.
Rerun ==
  /\ pc = "done"
  /\ run = 1
  /\ first_pairs' = pairs
  /\ run' = 2
  /\ pc' = "scan"
  /\ pairs' = << >>
  /\ used_videos' = {}
  /\ sequence' = 1
  /\ photo_idx' = 1
  /\ video_idx' = 1
  /\ video_frames' = << >>
  /\ photo_video_scores' = << >>
  /\ matches' = << >>
  /\ match_idx' = 1
  /\ st_birthtime' = << >>
  /\ assign_idx' = 1
  /\ UNCHANGED << media_files, mode, time_tolerance_seconds, has_birthtime,
                  multi_video, similarity, decoded, input_kind, directory,
                  tool, exif_cache, video_cache, scans, edits, resolved, fresh,
                  reread, error >>
  /\ UNCHANGED aux_vars

NextRun ==
  \/ ScanMediaFiles
  \/ ClearCache
  \/ Rerun
  \/ Next

SpecRun == InitRun /\ [][NextRun]_vars

\* ------------------------- image mode with and without the failing files
\* The paths that could not be decoded: no frame, or no image.
Failed == {r.path : r \in {q \in decoded : ~q.ok}}

InitAbsent ==
  /\ mode = "image"
  /\ \E n \in 0..MaxFiles :
       \E kinds \in [1..n -> BOOLEAN] :
         media_files =
           Files(kinds, [i \in 1..n |-> 0], Identity(CountKind(kinds, FALSE)),
                 Identity(CountKind(kinds, TRUE)))
  /\ time_tolerance_seconds = DefaultTolerance
  /\ has_birthtime = TRUE
  /\ multi_video = TRUE
  /\ Locals
  /\ NoScan

\* pair_files has returned: it is called again on the same list without the
\* files that failed to decode.
RerunWithoutFailed ==
  /\ pc = "done"
  /\ run = 1
  /\ first_pairs' = pairs
  /\ run' = 2
  /\ media_files' = SelectSeq(media_files, LAMBDA f : f.path \notin Failed)
  /\ pc' = "start"
  /\ pairs' = << >>
  /\ used_videos' = {}
  /\ sequence' = 1
  /\ photo_idx' = 1
  /\ video_idx' = 1
  /\ video_frames' = << >>
  /\ photo_video_scores' = << >>
  /\ matches' = << >>
  /\ match_idx' = 1
  /\ st_birthtime' = << >>
  /\ assign_idx' = 1
  /\ UNCHANGED << mode, time_tolerance_seconds, has_birthtime, multi_video,
                  similarity, decoded, input_kind, directory, tool, exif_cache,
                  video_cache, scans, edits, resolved, fresh, reread, error >>
  /\ UNCHANGED aux_vars

NextAbsent ==
  \/ Enter
  \/ ImageExtractFrames
  \/ ImageScorePhoto
  \/ ImageAssign
  \/ ImageEmit
  \/ ImageReturn
  \/ RerunWithoutFailed

SpecAbsent == InitAbsent /\ [][NextAbsent]_vars

\* ------------------------------------------------- split_video (video_split)
\* The engine and the scan at rest, for the specifications of the
\* collaborators, which call neither.
NoEngine ==
  /\ media_files = << >>
  /\ time_tolerance_seconds = DefaultTolerance
  /\ multi_video = TRUE
  /\ pairs = << >>
  /\ used_videos = {}
  /\ sequence = 1
  /\ photo_idx = 1
  /\ video_idx = 1
  /\ video_frames = << >>
  /\ photo_video_scores = << >>
  /\ matches = << >>
  /\ match_idx = 1
  /\ st_birthtime = << >>
  /\ assign_idx = 1
  /\ similarity = {}
  /\ decoded = {}
  /\ input_kind = "dir"
  /\ directory = << >>
  /\ tool = "ok"
  /\ exif_cache = << >>
  /\ video_cache = << >>
  /\ scans = 0
  /\ edits = 0
  /\ resolved = {}
  /\ fresh = {}
  /\ reread = {}
  /\ error = ""
  /\ run = 1
  /\ first_pairs = << >>

\* The variables split_video does not touch.
split_frame ==
  << media_files, mode, time_tolerance_seconds, has_birthtime, st_birthtime,
     pairs, used_videos, sequence, photo_idx, video_idx, video_frames,
     photo_video_scores, matches, match_idx, multi_video, similarity,
     assign_idx, decoded, input_kind, directory, tool, exif_cache,
     video_cache, scans, edits, resolved, fresh, reread, run, first_pairs,
     copy_vars, gui_vars >>

\* The segment counts split_video accepts: num_segments < 2 or
\* num_segments > 10 is refused.
MinSegments == 2
MaxSegments == 10

\* The num_segments a caller can pass: every accepted count and MaxExtra
\* counts beyond either limit.
SegmentCounts == (MinSegments - MaxExtra)..(MaxSegments + MaxExtra)

\* A range check that forgets the lower limit.
RefusedAbove(n) == n > MaxSegments

\* if num_segments < 2 or num_segments > 10
Refused(n) == n < MinSegments \/ n > MaxSegments

\* What ffprobe can answer: a duration in seconds, None for a non-zero
\* return code or an empty output, Unparseable for an output float() refuses,
\* Raise for a timeout or a missing executable.
ProbeOutcomes == (0..MaxTime) \cup {None, Unparseable, Raise}

\* get_video_duration: the duration when ffprobe printed one, None otherwise
\* (TimeoutExpired, ValueError and FileNotFoundError are caught).
get_video_duration(outcome) ==
  IF outcome \in {None, Unparseable, Raise} THEN None ELSE outcome

\* What one ffmpeg run can do: "ok" is return code 0 with the file present,
\* "failed" a non-zero return code with no file, "partial" a non-zero return
\* code or a timeout that left a file behind, "missing" no ffmpeg executable.
SegmentOutcomes == {"ok", "failed", "partial", "missing"}

\* split_video up to the loop: the range check, then the duration.
SplitVideo ==
  /\ pc = "split"
  /\ IF Refused(num_segments)
       THEN /\ pc' = "error"
            /\ error' = "ValueError"
            /\ UNCHANGED << duration, split_idx, output_files, written >>
       ELSE \E outcome \in ProbeOutcomes :
              /\ duration' = get_video_duration(outcome)
              /\ pc' = IF duration' = None THEN "done" ELSE "split_loop"
              /\ output_files' = << >>
              /\ split_idx' = 0
              /\ UNCHANGED << error, written >>
  /\ UNCHANGED num_segments
  /\ UNCHANGED split_frame

\* One iteration of for i in range(num_segments): the segment is returned
\* when ffmpeg succeeded and the file exists; a missing ffmpeg ends the loop.
SplitSegment ==
  /\ pc = "split_loop"
  /\ split_idx < num_segments
  /\ \E outcome \in SegmentOutcomes :
       /\ output_files' = IF outcome = "ok"
                            THEN Append(output_files, split_idx + 1)
                            ELSE output_files
       /\ written' = IF outcome \in {"ok", "partial"}
                       THEN written \cup {split_idx + 1}
                       ELSE written
       /\ split_idx' = IF outcome = "missing" THEN num_segments
                                               ELSE split_idx + 1
  /\ UNCHANGED << pc, error, num_segments, duration >>
  /\ UNCHANGED split_frame

\* return output_files
SplitReturn ==
  /\ pc = "split_loop"
  /\ split_idx >= num_segments
  /\ pc' = "done"
  /\ UNCHANGED << error, num_segments, duration, split_idx, output_files,
                  written >>
  /\ UNCHANGED split_frame

InitSplit ==
  /\ mode = "split"
  /\ pc = "split"
  /\ num_segments \in SegmentCounts
  /\ duration = None
  /\ split_idx = 0
  /\ output_files = << >>
  /\ written = {}
  /\ has_birthtime = TRUE
  /\ NoEngine
  /\ NoCopy
  /\ NoGui

NextSplit ==
  \/ SplitVideo
  \/ SplitSegment
  \/ SplitReturn

SpecSplit == InitSplit /\ [][NextSplit]_vars

\* ---------------------------------------- main and rename_and_copy (main.py)
\* What the OCR of a photo can give: a name, or "" when neither
\* extract_name_from_image nor extract_name_fullpage finds one.
OcrNames == {"", "A"}

\* The OCR of one photo gives one answer however often it is asked.
Named(photo, name) == \A r \in names : r.photo = photo => r.name = name

\* f"{n:03d}"
Format03d(n) ==
  IF n < 10 THEN "00" \o Str(n) ELSE IF n < 100 THEN "0" \o Str(n) ELSE Str(n)

\* name, or f"UNKNOWN_{pair.sequence:03d}" when the OCR found none
NameFor(pair, name) ==
  IF name = "" THEN "UNKNOWN_" \o Format03d(pair.sequence) ELSE name

\* f"{name}_{seq}{ext}" with seq = f"{pair.sequence:03d}"
NewName(name, pair, ext) ==
  name \o "_" \o Format03d(pair.sequence) \o "." \o ext

\* shutil.copy2(src, dst): dst holds the content of src, whatever it held.
Copy2(dir, src, dst) ==
  {e \in dir : e.name # dst} \cup {[name |-> dst, content |-> src]}

\* What the two copies of one pair can do.
CopyOutcomes == {"ok", "photo_raises", "video_raises"}

\* main after pair_files: `if not pairs: return`, else rename_and_copy is
\* entered (output_path.mkdir unless dry_run).
MainRename ==
  /\ pc = "done"
  /\ pc' = IF pairs = << >> THEN "exit" ELSE "copy"
  /\ UNCHANGED << media_files, mode, time_tolerance_seconds, has_birthtime,
                  st_birthtime, pairs, used_videos, sequence, photo_idx,
                  video_idx, video_frames, photo_video_scores, matches,
                  match_idx, multi_video, similarity, assign_idx, decoded,
                  input_kind, directory, tool, exif_cache, video_cache, scans,
                  edits, resolved, fresh, reread, error, run, first_pairs >>
  /\ UNCHANGED aux_vars

\* One iteration of `for pair in pairs`: OCR, the two new names, the two
\* copies; an exception of a copy is recorded and the loop goes on.
RenameAndCopyPair ==
  /\ pc = "copy"
  /\ copy_idx <= Len(pairs)
  /\ LET pair == pairs[copy_idx]
     IN  \E ocr \in OcrNames, outcome \in CopyOutcomes :
           /\ Named(pair.photo.path, ocr)
           /\ names' = names \cup {[photo |-> pair.photo.path, name |-> ocr]}
           /\ LET name == NameFor(pair, ocr)
                  new_photo_name == NewName(name, pair, pair.photo.path.ext)
                  new_video_name == NewName(name, pair, pair.video.path.ext)
                  with_photo == Copy2(output_dir, pair.photo.path, new_photo_name)
              IN  output_dir' =
                    IF dry_run \/ outcome = "photo_raises"
                      THEN output_dir
                      ELSE IF outcome = "video_raises"
                             THEN with_photo
                             ELSE Copy2(with_photo, pair.video.path, new_video_name)
           /\ stats' =
                [success |-> IF dry_run \/ outcome = "ok"
                               THEN stats.success + 1 ELSE stats.success,
                 ocr_failed |-> IF ocr = "" THEN stats.ocr_failed + 1
                                            ELSE stats.ocr_failed,
                 errors |-> IF ~dry_run /\ outcome # "ok"
                              THEN stats.errors + 1 ELSE stats.errors]
  /\ copy_idx' = copy_idx + 1
  /\ UNCHANGED << media_files, mode, time_tolerance_seconds, has_birthtime,
                  st_birthtime, pc, pairs, used_videos, sequence, photo_idx,
                  video_idx, video_frames, photo_video_scores, matches,
                  match_idx, multi_video, similarity, assign_idx, decoded,
                  input_kind, directory, tool, exif_cache, video_cache, scans,
                  edits, resolved, fresh, reread, error, run, first_pairs >>
  /\ UNCHANGED << split_vars, gui_vars, dry_run >>

\* return stats
RenameAndCopyReturn ==
  /\ pc = "copy"
  /\ copy_idx > Len(pairs)
  /\ pc' = "exit"
  /\ UNCHANGED << media_files, mode, time_tolerance_seconds, has_birthtime,
                  st_birthtime, pairs, used_videos, sequence, photo_idx,
                  video_idx, video_frames, photo_video_scores, matches,
                  match_idx, multi_video, similarity, assign_idx, decoded,
                  input_kind, directory, tool, exif_cache, video_cache, scans,
                  edits, resolved, fresh, reread, error, run, first_pairs >>
  /\ UNCHANGED aux_vars

\* python main.py input_dir output_dir [--dry-run] on a directory of photos
\* and videos: pair_files is called in its default mode.
InitCli ==
  /\ mode = "image"
  /\ input_kind = "dir"
  /\ \E n \in 0..(MaxDir + 1) : \E choice \in [1..n -> RunEntryChoices(mode)] :
       directory = Directory(choice)
  /\ tool = "ok"
  /\ time_tolerance_seconds = DefaultTolerance
  /\ has_birthtime = TRUE
  /\ multi_video = TRUE
  /\ media_files = << >>
  /\ pc = "scan"
  /\ pairs = << >>
  /\ used_videos = {}
  /\ sequence = 1
  /\ photo_idx = 1
  /\ video_idx = 1
  /\ video_frames = << >>
  /\ photo_video_scores = << >>
  /\ matches = << >>
  /\ match_idx = 1
  /\ st_birthtime = << >>
  /\ assign_idx = 1
  /\ similarity = {}
  /\ decoded = {}
  /\ exif_cache = << >>
  /\ video_cache = << >>
  /\ scans = 0
  /\ edits = 0
  /\ resolved = {}
  /\ fresh = {}
  /\ reread = {}
  /\ error = ""
  /\ run = 1
  /\ first_pairs = << >>
  /\ NoSplit
  /\ dry_run \in BOOLEAN
  /\ names = {}
  /\ copy_idx = 1
  /\ output_dir = {}
  /\ stats = [success |-> 0, ocr_failed |-> 0, errors |-> 0]
  /\ NoGui

NextCli ==
  \/ ScanMediaFiles
  \/ Enter
  \/ ImageExtractFrames
  \/ ImageScorePhoto
  \/ ImageAssign
  \/ ImageEmit
  \/ ImageReturn
  \/ MainRename
  \/ RenameAndCopyPair
  \/ RenameAndCopyReturn

SpecCli == InitCli /\ [][NextCli]_vars

\* ------------------------------------------- the window (gui.py), its lists
\* The variables the preview and the reorder handlers do not touch.
gui_frame ==
  << media_files, mode, time_tolerance_seconds, has_birthtime, st_birthtime,
     pc, pairs, used_videos, sequence, photo_idx, video_idx, video_frames,
     photo_video_scores, matches, match_idx, multi_video, similarity,
     assign_idx, decoded, input_kind, directory, tool, exif_cache,
     video_cache, scans, edits, resolved, fresh, reread, error, run,
     first_pairs, split_vars, copy_vars, workers, updating >>

\* The i-th photo by file name and the i-th video by download time of the
\* scanned directory.
GuiPhoto(i) == MediaFile([stem |-> i, ext |-> IMAGE_EXT], FALSE, 0, "filesystem")

GuiVideo(i) == MediaFile([stem |-> i, ext |-> VIDEO_EXT], TRUE, 0, "filesystem")

\* The orders scan_media_files can return n files of one kind in.
ScanOrders(n) == {Identity(n), [i \in 1..n |-> n + 1 - i]}

\* What scan_media_files can return for a directory of at most n media
\* files.
ScanResultsUpTo(n) ==
  LET Lists(np, nv) ==
        {[i \in 1..np |-> GuiPhoto(po[i])] \o [i \in 1..nv |-> GuiVideo(vo[i])] :
           po \in ScanOrders(np), vo \in ScanOrders(nv)}
  IN  UNION {UNION {Lists(np, nv) : nv \in 0..(n - np)} : np \in 0..n}

\* The directories the previews of the model scan.
ScanResults == ScanResultsUpTo(MaxDir + 1)

\* An exchange that writes one of the two positions only.
SwapOverwrites(items, i, j) == [items EXCEPT ![i] = items[j]]

\* items[i], items[j] = items[j], items[i]
Swap(items, i, j) == [items EXCEPT ![i] = items[j], ![j] = items[i]]

\* _build_pairs: enumerate(zip(self.photos, self.videos), 1)
BuildPairs(ps, vs) ==
  [i \in 1..Min(Len(ps), Len(vs)) |-> FilePair(ps[i], vs[i], i, "")]

\* self.videos.sort(key=lambda x: x.path.stat().st_birthtime) raises where
\* stat has no st_birthtime and there is a video to take the key of.
GuiSortRaises(vs) == vs # << >> /\ ~has_birthtime

\* _update_preview_lists on the lists ps, vs: the thumbnails are rebuilt
\* from them and _build_pairs is called; the selection is cleared by the
\* caller's conjuncts.
UpdatePreviewLists(ps, vs) ==
  /\ photo_items' = ps
  /\ video_items' = vs
  /\ self_pairs' = BuildPairs(ps, vs)

\* _preview, on the foreground: the button is disabled and do_preview started.
\* The model runs one do_preview thread at a time.
Preview ==
  /\ preview_btn = "normal"
  /\ preview_pc = "idle"
  /\ preview_btn' = "disabled"
  /\ preview_pc' = "scan"
  /\ last_op' = [op |-> "preview"]
  /\ UNCHANGED << self_photos, self_videos, self_pairs, selected_photo_idx,
                  selected_video_idx, photo_items, video_items, run_btn,
                  is_processing, after_queue, last_preview >>
  /\ UNCHANGED gui_frame

\* do_preview: files = scan_media_files(input_path), then self.photos =
\* [...]; self.videos = [...]; or the exception of the scan, which hands the
\* error message and the enabling of the button to the foreground.
DoPreviewScan ==
  /\ preview_pc = "scan"
  /\ \/ \E files \in ScanResults :
          /\ self_photos' = SelectSeq(files, LAMBDA f : ~f.is_video)
          /\ self_videos' = SelectSeq(files, LAMBDA f : f.is_video)
          /\ last_preview' = [photos |-> self_photos', videos |-> self_videos']
          /\ preview_pc' = "sort"
          /\ UNCHANGED after_queue
     \/ /\ after_queue' = after_queue \o << "error", "enable" >>
        /\ preview_pc' = "idle"
        /\ UNCHANGED << self_photos, self_videos, last_preview >>
  /\ last_op' = [op |-> "do_preview"]
  /\ UNCHANGED << self_pairs, selected_photo_idx, selected_video_idx,
                  photo_items, video_items, preview_btn, run_btn,
                  is_processing >>
  /\ UNCHANGED gui_frame

\* do_preview: the two in-place sorts, then self.after(0,
\* self._update_preview_lists); an exception of the second sort leaves the
\* photos sorted and hands the error message to the foreground instead.
\* finally: self.after(0, <enable the preview button>).
DoPreviewSort ==
  /\ preview_pc = "sort"
  /\ self_photos' = SortByName(self_photos)
  /\ IF GuiSortRaises(self_videos)
       THEN /\ UNCHANGED self_videos
            /\ after_queue' = after_queue \o << "error", "enable" >>
       ELSE /\ self_videos' =
                 SortByBirthtime(self_videos,
                                 [p \in {f.path : f \in Range(self_videos)} |-> p.stem])
            /\ after_queue' = after_queue \o << "update", "enable" >>
  /\ last_preview' = [photos |-> self_photos', videos |-> self_videos']
  /\ preview_pc' = "idle"
  /\ last_op' = [op |-> "do_preview"]
  /\ UNCHANGED << self_pairs, selected_photo_idx, selected_video_idx,
                  photo_items, video_items, preview_btn, run_btn,
                  is_processing >>
  /\ UNCHANGED gui_frame

\* The event loop runs the oldest callback of self.after(0, ...).
AfterCallback ==
  /\ after_queue # << >>
  /\ after_queue' = Tail(after_queue)
  /\ CASE Head(after_queue) = "update" ->
            /\ UpdatePreviewLists(self_photos, self_videos)
            /\ selected_photo_idx' = None
            /\ selected_video_idx' = None
            /\ UNCHANGED preview_btn
       [] Head(after_queue) = "enable" ->
            /\ preview_btn' = "normal"
            /\ UNCHANGED << self_pairs, selected_photo_idx, selected_video_idx,
                            photo_items, video_items >>
       [] OTHER ->
            UNCHANGED << self_pairs, selected_photo_idx, selected_video_idx,
                         photo_items, video_items, preview_btn >>
  /\ last_op' = [op |-> "after"]
  /\ UNCHANGED << self_photos, self_videos, run_btn, is_processing, preview_pc,
                  last_preview >>
  /\ UNCHANGED gui_frame

\* _select_photo(idx), by a click on the idx-th photo thumbnail: with another
\* photo selected the two are exchanged and the display rebuilt; otherwise
\* the selection is set, or cleared by a second click.  An index beyond the
\* list raises IndexError before anything is written.
SelectPhoto(idx) ==
  /\ idx \in 1..Len(photo_items)
  /\ IF selected_photo_idx # None /\ selected_photo_idx # idx
       THEN IF idx <= Len(self_photos) /\ selected_photo_idx <= Len(self_photos)
              THEN /\ self_photos' = Swap(self_photos, selected_photo_idx, idx)
                   /\ selected_photo_idx' = None
                   /\ selected_video_idx' = None
                   /\ UpdatePreviewLists(self_photos', self_videos)
                   /\ last_op' = [op |-> "select_photo"]
              ELSE /\ last_op' = [op |-> "select_photo"]
                   /\ UNCHANGED << self_photos, self_pairs, selected_photo_idx,
                                   selected_video_idx, photo_items, video_items >>
       ELSE /\ selected_photo_idx' = IF selected_photo_idx = idx THEN None ELSE idx
            /\ last_op' = [op |-> "select_photo"]
            /\ UNCHANGED << self_photos, self_pairs, selected_video_idx,
                            photo_items, video_items >>
  /\ UNCHANGED << self_videos, preview_btn, run_btn, is_processing, preview_pc,
                  after_queue, last_preview >>
  /\ UNCHANGED gui_frame

\* _select_video(idx): the same on the videos.
SelectVideo(idx) ==
  /\ idx \in 1..Len(video_items)
  /\ IF selected_video_idx # None /\ selected_video_idx # idx
       THEN IF idx <= Len(self_videos) /\ selected_video_idx <= Len(self_videos)
              THEN /\ self_videos' = Swap(self_videos, selected_video_idx, idx)
                   /\ selected_video_idx' = None
                   /\ selected_photo_idx' = None
                   /\ UpdatePreviewLists(self_photos, self_videos')
                   /\ last_op' = [op |-> "select_video"]
              ELSE /\ last_op' = [op |-> "select_video"]
                   /\ UNCHANGED << self_videos, self_pairs, selected_photo_idx,
                                   selected_video_idx, photo_items, video_items >>
       ELSE /\ selected_video_idx' = IF selected_video_idx = idx THEN None ELSE idx
            /\ last_op' = [op |-> "select_video"]
            /\ UNCHANGED << self_videos, self_pairs, selected_photo_idx,
                            photo_items, video_items >>
  /\ UNCHANGED << self_photos, preview_btn, run_btn, is_processing, preview_pc,
                  after_queue, last_preview >>
  /\ UNCHANGED gui_frame

\* _move_item("photo", direction): nothing without a selection or beyond
\* either end; otherwise the selected photo and its neighbour are exchanged,
\* _update_preview_lists rebuilds the display and clears both selections,
\* and _select_photo(new_idx) selects the moved photo again.
MovePhoto(direction) ==
  /\ LET idx == selected_photo_idx
         new_idx == idx + direction
     IN  IF idx # None /\ 1 <= new_idx /\ new_idx <= Len(self_photos)
           THEN IF idx <= Len(self_photos)
                  THEN /\ self_photos' = Swap(self_photos, idx, new_idx)
                       /\ UpdatePreviewLists(self_photos', self_videos)
                       /\ selected_photo_idx' = new_idx
                       /\ selected_video_idx' = None
                       /\ last_op' = [op |-> "move_photo", direction |-> direction]
                  ELSE /\ last_op' = [op |-> "move_photo", direction |-> direction]
                       /\ UNCHANGED << self_photos, self_pairs, selected_photo_idx,
                                       selected_video_idx, photo_items, video_items >>
           ELSE /\ last_op' = [op |-> "move_photo", direction |-> direction]
                /\ UNCHANGED << self_photos, self_pairs, selected_photo_idx,
                                selected_video_idx, photo_items, video_items >>
  /\ UNCHANGED << self_videos, preview_btn, run_btn, is_processing, preview_pc,
                  after_queue, last_preview >>
  /\ UNCHANGED gui_frame

\* _move_item("video", direction)
MoveVideo(direction) ==
  /\ LET idx == selected_video_idx
         new_idx == idx + direction
     IN  IF idx # None /\ 1 <= new_idx /\ new_idx <= Len(self_videos)
           THEN IF idx <= Len(self_videos)
                  THEN /\ self_videos' = Swap(self_videos, idx, new_idx)
                       /\ UpdatePreviewLists(self_photos, self_videos')
                       /\ selected_video_idx' = new_idx
                       /\ selected_photo_idx' = None
                       /\ last_op' = [op |-> "move_video", direction |-> direction]
                  ELSE /\ last_op' = [op |-> "move_video", direction |-> direction]
                       /\ UNCHANGED << self_videos, self_pairs, selected_photo_idx,
                                       selected_video_idx, photo_items, video_items >>
           ELSE /\ last_op' = [op |-> "move_video", direction |-> direction]
                /\ UNCHANGED << self_videos, self_pairs, selected_photo_idx,
                                selected_video_idx, photo_items, video_items >>
  /\ UNCHANGED << self_photos, preview_btn, run_btn, is_processing, preview_pc,
                  after_queue, last_preview >>
  /\ UNCHANGED gui_frame

\* _move_item by one of the four arrow buttons.
MoveItem ==
  \E direction \in {-1, 1} : MovePhoto(direction) \/ MoveVideo(direction)

\* A click on one of the thumbnails on display.
SelectItem ==
  \/ \E idx \in 1..Len(photo_items) : SelectPhoto(idx)
  \/ \E idx \in 1..Len(video_items) : SelectVideo(idx)

\* The window after __init__, in its default pairing mode, on a platform
\* with or without st_birthtime.
InitGui ==
  /\ mode = "order"
  /\ pc = "gui"
  /\ has_birthtime \in BOOLEAN
  /\ NoEngine
  /\ NoSplit
  /\ NoCopy
  /\ NoGui

NextGui ==
  \/ Preview
  \/ DoPreviewScan
  \/ DoPreviewSort
  \/ AfterCallback
  \/ SelectItem
  \/ MoveItem

SpecGui == InitGui /\ [][NextGui]_vars

\* ------------------------------------------ the window (gui.py), processing
\* How many _run calls get past the check of is_processing on the way to
\* starting do_process.
MaxRuns == 2

\* The variables _run and do_process do not touch.
run_frame ==
  << media_files, mode, time_tolerance_seconds, has_birthtime, st_birthtime,
     pc, pairs, used_videos, sequence, photo_idx, video_idx, video_frames,
     photo_video_scores, matches, match_idx, multi_video, similarity,
     assign_idx, decoded, input_kind, directory, tool, exif_cache,
     video_cache, scans, edits, resolved, fresh, reread, error, run,
     first_pairs, split_vars, copy_vars, selected_photo_idx,
     selected_video_idx, photo_items, video_items, preview_pc, after_queue >>

\* try: ... except Exception: ... finally: the finally block runs after the
\* body and after the except branch alike.
WorkerAfter(outcome) == "reset"

\* What the window shows when a do_process ends.
Snapshot(processing, run_state, preview_state) ==
  [is_processing |-> processing, run_btn |-> run_state,
   preview_btn |-> preview_state]

\* A do_process thread at position p of its code: i pairs of total handled,
\* errors telling whether its list of errors has an entry.
Worker(p, i, total, errors, outcome, ended_with) ==
  [pc |-> p, i |-> i, total |-> total, errors |-> errors, outcome |-> outcome,
   ended_with |-> ended_with]

\* The do_process threads that have not ended.
Active == {w \in 1..Len(workers) : workers[w].pc # "ended"}

\* The end of _run: with an output folder and a confirmed dialog (go),
\* is_processing is set, both buttons are disabled and do_process is started;
\* otherwise _run returns.
StartProcess(go) ==
  IF go /\ Len(workers) < MaxRuns
    THEN /\ is_processing' = TRUE
         /\ run_btn' = "disabled"
         /\ preview_btn' = "disabled"
         /\ workers' = Append(workers, Worker("mkdir", 0, 0, FALSE, "", << >>))
    ELSE UNCHANGED << is_processing, run_btn, preview_btn, workers >>

\* _run, by a click on the run button, which delivers it only while the
\* button is enabled.  It returns at once while is_processing is set.
\* Without pairs it returns when no input folder is chosen and otherwise
\* sets the status text and calls self.update(), which runs the handlers of
\* the events that are waiting before it returns to this _run.  With pairs
\* it goes on to the end of _run.
Run ==
  /\ run_btn = "normal"
  /\ last_op' = [op |-> "run"]
  /\ \/ /\ is_processing
        /\ UNCHANGED << is_processing, run_btn, preview_btn, workers, updating >>
     \/ /\ ~is_processing
        /\ self_pairs = << >>
        /\ \/ UNCHANGED updating
           \/ /\ updating + Len(workers) < MaxRuns
              /\ updating' = updating + 1
        /\ UNCHANGED << is_processing, run_btn, preview_btn, workers >>
     \/ /\ ~is_processing
        /\ self_pairs # << >>
        /\ \E go \in BOOLEAN : StartProcess(go)
        /\ UNCHANGED updating
  /\ UNCHANGED << self_photos, self_videos, self_pairs, last_preview >>
  /\ UNCHANGED run_frame

\* The rest of a _run whose self.update() has returned: it scans, sorts and
\* pairs in place, returns when that fails or gives nothing, and otherwise
\* goes on to the end of _run.  is_processing is not read again.
RunScan ==
  /\ updating > 0
  /\ updating' = updating - 1
  /\ last_op' = [op |-> "run_scan"]
  /\ \E files \in ScanResults, go \in BOOLEAN :
       LET ps == SelectSeq(files, LAMBDA f : ~f.is_video)
           vs == SelectSeq(files, LAMBDA f : f.is_video)
           vs_sorted ==
             SortByBirthtime(vs, [p \in {f.path : f \in Range(vs)} |-> p.stem])
       IN  /\ self_photos' = SortByName(ps)
           /\ self_videos' = IF GuiSortRaises(vs) THEN vs ELSE vs_sorted
           /\ last_preview' = [photos |-> self_photos', videos |-> self_videos']
           /\ self_pairs' = IF GuiSortRaises(vs)
                              THEN self_pairs
                              ELSE BuildPairs(self_photos', self_videos')
           /\ StartProcess(go /\ ~GuiSortRaises(vs) /\ self_pairs' # << >>)
  /\ UNCHANGED run_frame

\* do_process up to the loop: output_dir.mkdir, total = len(self.pairs); an
\* exception goes to the outer except branch and its message.
WorkerMkdir(w) ==
  /\ workers[w].pc = "mkdir"
  /\ \E raises \in BOOLEAN :
       LET next == IF raises THEN WorkerAfter("failed") ELSE "loop"
       IN  workers' =
             [workers EXCEPT ![w] =
                Worker(next, 0, Len(self_pairs), FALSE,
                       IF raises THEN "failed" ELSE "",
                       IF next = "ended"
                         THEN Snapshot(is_processing, run_btn, preview_btn)
                         ELSE << >>)]
  /\ last_op' = [op |-> "do_process"]
  /\ UNCHANGED << self_photos, self_videos, self_pairs, last_preview,
                  is_processing, run_btn, preview_btn >>
  /\ UNCHANGED << run_frame, updating >>

\* One iteration of `for i, pair in enumerate(self.pairs)`: the pair is
\* written, or its exception is caught and recorded.
WorkerPair(w) ==
  /\ workers[w].pc = "loop"
  /\ workers[w].i < workers[w].total
  /\ \E raises \in BOOLEAN :
       workers' = [workers EXCEPT ![w].i = @ + 1,
                                  ![w].errors = @ \/ raises]
  /\ last_op' = [op |-> "do_process"]
  /\ UNCHANGED << self_photos, self_videos, self_pairs, last_preview,
                  is_processing, run_btn, preview_btn >>
  /\ UNCHANGED << run_frame, updating >>

\* The loop is exhausted: the result message is shown and dismissed.
WorkerDone(w) ==
  /\ workers[w].pc = "loop"
  /\ workers[w].i >= workers[w].total
  /\ workers' = [workers EXCEPT ![w].pc = WorkerAfter("ok"), ![w].outcome = "ok"]
  /\ last_op' = [op |-> "do_process"]
  /\ UNCHANGED << self_photos, self_videos, self_pairs, last_preview,
                  is_processing, run_btn, preview_btn >>
  /\ UNCHANGED << run_frame, updating >>

\* finally: self.is_processing = False
WorkerReset(w) ==
  /\ workers[w].pc = "reset"
  /\ is_processing' = FALSE
  /\ workers' = [workers EXCEPT ![w].pc = "enable"]
  /\ last_op' = [op |-> "do_process"]
  /\ UNCHANGED << self_photos, self_videos, self_pairs, last_preview,
                  run_btn, preview_btn >>
  /\ UNCHANGED << run_frame, updating >>

\* finally: both buttons are set to normal, and the thread ends.
WorkerEnable(w) ==
  /\ workers[w].pc = "enable"
  /\ run_btn' = "normal"
  /\ preview_btn' = "normal"
  /\ workers' = [workers EXCEPT ![w].pc = "ended",
                                ![w].ended_with =
                                  Snapshot(is_processing, "normal", "normal")]
  /\ last_op' = [op |-> "do_process"]
  /\ UNCHANGED << self_photos, self_videos, self_pairs, last_preview,
                  is_processing >>
  /\ UNCHANGED << run_frame, updating >>

\* A step of one of the do_process threads.
DoProcess ==
  \E w \in 1..Len(workers) :
    \/ WorkerMkdir(w)
    \/ WorkerPair(w)
    \/ WorkerDone(w)
    \/ WorkerReset(w)
    \/ WorkerEnable(w)

NextWorker ==
  \/ Run
  \/ RunScan
  \/ DoProcess

\* The window after __init__, with the run button and the threads it starts.
SpecWorker == InitGui /\ [][NextWorker]_vars

\* The threads are scheduled: a do_process that can take a step takes one,
\* every wait inside it being bounded by a timeout, and the result message
\* being dismissed.
SpecWorkerFair == SpecWorker /\ WF_vars(DoProcess)

\* ---------------------------------------- pair_files, image mode on its own
\* pair_files(files) as main calls it: every list of files, image mode.
InitImage ==
  /\ InitSmall
  /\ mode = "image"

NextImage ==
  \/ Enter
  \/ ImageExtractFrames
  \/ ImageScorePhoto
  \/ ImageAssign
  \/ ImageEmit
  \/ ImageReturn

SpecImage == InitImage /\ [][NextImage]_vars

\* ------------------------------------------------------- properties
Returned == pc = "done"

Paired(ps, photo, video) ==
  \E k \in 1..Len(ps) : ps[k].photo.path = photo.path /\ ps[k].video.path = video.path

Matched(photo) == \E k \in 1..Len(pairs) : pairs[k].photo.path = photo.path

\* C1: read in output order, the sequence values start at 1 and each is the
\* previous one or the previous one plus 1, so they are exactly 1..k, also
\* when photos are left unmatched.
C1_SequenceDense ==
  /\ pairs # << >> => pairs[1].sequence = 1
  /\ \A i \in 2..Len(pairs) :
       pairs[i].sequence - pairs[i - 1].sequence \in {0, 1}
  /\ {pairs[i].sequence : i \in 1..Len(pairs)} =
       1..Cardinality({pairs[i].sequence : i \in 1..Len(pairs)})

\* A returned list of pair_files_by_time whose first photo is unmatched and
\* whose second photo has a group of two videos.
C1_Witness ==
  /\ Returned /\ mode = "by_time"
  /\ Len(photos) >= 2 /\ ~Matched(photos[1])
  /\ Len(pairs) = 2
  /\ pairs[1].photo = photos[2] /\ pairs[2].photo = photos[2]

\* C2: with pairwise distinct input paths, no video path is the video of
\* more than one FilePair.
C2_VideoPairedOnce ==
  \A i, j \in 1..Len(pairs) :
    i # j => pairs[i].video.path # pairs[j].video.path

\* Image mode: a video kept as a candidate by two photos, both in the result.
C2_Witness ==
  /\ Returned /\ mode = "image"
  /\ Len(pairs) >= 2
  /\ \E a, b \in 1..Len(photo_video_scores) :
       /\ a # b
       /\ \E x \in Range(photo_video_scores[a].scores) :
            \E y \in Range(photo_video_scores[b].scores) : x.video = y.video

\* C3: the key (sequence, sub_sequence) is unique in a result, also in a
\* group of more than 26 videos, where the numerals take over.
C3_KeyUnique ==
  \A i, j \in 1..Len(pairs) :
    i # j => << pairs[i].sequence, pairs[i].sub_sequence >> #
             << pairs[j].sequence, pairs[j].sub_sequence >>

\* A returned list with a single pair and then a group of 28 videos, the
\* last three labelled "z", "27" and "28".
C3_Witness ==
  /\ Returned
  /\ Len(pairs) = 29
  /\ pairs[1].sub_sequence = ""
  /\ pairs[27].sub_sequence = "z"
  /\ pairs[28].sub_sequence = "27"
  /\ pairs[29].sub_sequence = "28"
  /\ pairs[29].sequence = pairs[2].sequence

\* C4: two FilePairs have the same sequence exactly when they have the same
\* photo.
C4_SequenceIffPhoto ==
  \A i, j \in 1..Len(pairs) :
    (pairs[i].sequence = pairs[j].sequence) <=>
      (pairs[i].photo.path = pairs[j].photo.path)

\* Two photos in the result, the second one with several videos.
C4_Witness ==
  /\ Returned
  /\ Len(pairs) >= 3
  /\ pairs[1].photo # pairs[2].photo
  /\ pairs[2].photo = pairs[3].photo

\* The order in which the mode goes through the photos, as an index.
NameRank(photo) ==
  Cardinality({f \in Range(photos) : NameKey(f.path) <= NameKey(photo.path)})

ListIndex(photo) == CHOOSE i \in 1..Len(photos) : photos[i].path = photo.path

ProcessingIndex(photo) ==
  IF mode = "order" THEN NameRank(photo) ELSE ListIndex(photo)

\* C5: a smaller sequence means an earlier photo in the mode's processing
\* order, and a pair's sequence is the number of matched photos up to its
\* own: unmatched photos consume no number.
C5_SequenceFollowsProcessing ==
  /\ \A i, j \in 1..Len(pairs) :
       pairs[i].sequence < pairs[j].sequence =>
         ProcessingIndex(pairs[i].photo) < ProcessingIndex(pairs[j].photo)
  /\ \A i \in 1..Len(pairs) :
       pairs[i].sequence =
         Cardinality({f \in Range(photos) :
                        /\ Matched(f)
                        /\ ProcessingIndex(f) <= ProcessingIndex(pairs[i].photo)})

\* Order mode: two pairs whose photos stand in the list against their names.
C5_Witness ==
  /\ Returned /\ mode = "order"
  /\ Len(pairs) = 2
  /\ ListIndex(pairs[1].photo) > ListIndex(pairs[2].photo)


\* The step of pair_files_by_time that handles photos[photo_idx].
ByTimePhotoStep ==
  mode = "by_time" /\ pc = "by_time" /\ photo_idx <= Len(photos) /\
  photo_idx' = photo_idx + 1

\* C6: in the step of a photo, an unclaimed video at exactly
\* photo.created_time + T is paired with the photo, and a video later than
\* that is not.
C6_InclusiveUpperBound ==
  [][ByTimePhotoStep =>
       LET photo == photos[photo_idx]
           T == time_tolerance_seconds
       IN  \A i \in 1..Len(videos) :
             /\ (videos[i].path \notin used_videos /\
                 videos[i].created_time = photo.created_time + T)
                  => Paired(pairs', photo, videos[i])
             /\ videos[i].created_time > photo.created_time + T
                  => ~Paired(pairs', photo, videos[i])]_vars

\* T >= 1: a photo paired with a video T seconds later, while a video later
\* still stays unpaired.
C6_Witness ==
  /\ Returned /\ mode = "by_time" /\ time_tolerance_seconds >= 1
  /\ \E k \in 1..Len(pairs) :
       /\ pairs[k].video.created_time =
            pairs[k].photo.created_time + time_tolerance_seconds
       /\ \E i \in 1..Len(videos) :
            /\ videos[i].created_time >
                 pairs[k].photo.created_time + time_tolerance_seconds
            /\ videos[i].path \notin used_videos

Window(photo, video) ==
  /\ photo.created_time <= video.created_time
  /\ video.created_time <= photo.created_time + time_tolerance_seconds

\* The first photo, in processing order, whose window holds the video.
FirstPhotoFor(video) ==
  CHOOSE i \in 1..Len(photos) :
    /\ Window(photos[i], video)
    /\ \A j \in 1..(i - 1) : ~Window(photos[j], video)

\* C8: every paired video is paired with the first photo whose window holds
\* it, and a step keeps every earlier pair and every earlier claim.
C8_FirstPhotoKeepsVideo ==
  [][mode = "by_time" =>
       /\ used_videos \subseteq used_videos'
       /\ Len(pairs') >= Len(pairs)
       /\ \A k \in 1..Len(pairs) : pairs'[k] = pairs[k]
       /\ \A k \in 1..Len(pairs') :
            /\ pairs'[k].photo = photos[FirstPhotoFor(pairs'[k].video)]
            /\ \A l \in 1..Len(pairs') :
                 pairs'[l].video.path = pairs'[k].video.path => l = k]_vars

\* A video inside the windows of two photos, after both photos are done.
C8_Witness ==
  /\ Returned /\ mode = "by_time"
  /\ \E i, j \in 1..Len(photos) : \E v \in 1..Len(videos) :
       /\ i < j
       /\ Window(photos[i], videos[v])
       /\ Window(photos[j], videos[v])
       /\ photos[i].created_time # photos[j].created_time
       /\ Paired(pairs, photos[i], videos[v])

\* The pairs of a photo, in output order.
PairsOf(photo) == SelectSeq(pairs, LAMBDA q : q.photo.path = photo.path)

\* C9: pair_files_by_time gives a photo with one video one FilePair with
\* empty sub_sequence, and a photo with n >= 2 videos n FilePairs in
\* ascending video created_time labelled a, b, c, ..., none empty; every
\* claimed video is in a pair.
C9_GroupLabels ==
  mode = "by_time" =>
    /\ Len(pairs) = Cardinality(used_videos)
    /\ \A i \in 1..Len(photos) :
         LET g == PairsOf(photos[i])
         IN  /\ Len(g) = 1 => g[1].sub_sequence = ""
             /\ Len(g) >= 2 =>
                  \A k \in 1..Len(g) :
                    /\ g[k].sub_sequence # ""
                    /\ k <= Len(sub_labels) => g[k].sub_sequence = sub_labels[k]
                    /\ k > 1 => g[k - 1].video.created_time <= g[k].video.created_time

\* A group of three whose videos stand in the list latest first.
C9_Witness ==
  /\ Returned /\ mode = "by_time"
  /\ Len(pairs) = 3 /\ Len(videos) = 3
  /\ pairs[1].sub_sequence = "a" /\ pairs[2].sub_sequence = "b"
  /\ pairs[3].sub_sequence = "c"
  /\ videos[1].created_time > videos[2].created_time
  /\ videos[2].created_time > videos[3].created_time
  /\ pairs[1].video = videos[3]

\* C10: order mode returns normally with min(p, v) FilePairs, the i-th
\* pairing the i-th photo by file name with the i-th video by filesystem
\* creation time, with sequence i and empty sub_sequence.
C10_OrderModeReturns ==
  (mode = "order" /\ pc \notin {"start", "order"}) =>
    /\ pc = "done"
    /\ Len(pairs) = Min(Len(photos), Len(videos))
    /\ \A i \in 1..Len(pairs) :
         /\ pairs[i].sequence = i
         /\ pairs[i].sub_sequence = ""
         /\ ~pairs[i].photo.is_video /\ pairs[i].video.is_video
         /\ NameRank(pairs[i].photo) = i
         /\ \A j \in 1..Len(pairs) :
              i < j => st_birthtime[pairs[i].video.path] <=
                       st_birthtime[pairs[j].video.path]
         /\ \A f \in Range(videos) :
              ~(\E k \in 1..Len(pairs) : pairs[k].video.path = f.path) =>
                st_birthtime[f.path] >= st_birthtime[pairs[i].video.path]

\* What match_photos_to_videos returned to a direct caller.
MatchReturned == mode = "match" /\ pc = "done"

\* The photos that kept the video as a candidate, each with its score.
Candidates(video) ==
  {r \in similarity : r.video = video /\ r.score >= Threshold}

\* The places of the returned result where the video appears.
Assigned(video) ==
  {kj \in (1..Len(matches)) \X (1..MaxFiles) :
     /\ kj[2] <= Len(matches[kj[1]].videos)
     /\ matches[kj[1]].videos[kj[2]].video = video}

\* C11: with multi_video set, every video that reached the threshold against
\* at least one photo is assigned to exactly one photo, with a score that is
\* the maximum over the photos that kept it as a candidate; the scores of the
\* other videos play no part.
C11_VideoToBestPhoto ==
  (MatchReturned /\ multi_video) =>
    \A v \in Range(video_paths) :
      Candidates(v) # {} =>
        /\ Cardinality(Assigned(v)) = 1
        /\ \A kj \in Assigned(v) :
             \E r \in Candidates(v) :
               /\ r.photo = matches[kj[1]].photo
               /\ r.score = matches[kj[1]].videos[kj[2]].score
               /\ \A q \in Candidates(v) : q.score <= r.score

\* A video kept by the first two photos, with a higher score against the
\* second, is returned with the second photo only.
C11_Witness ==
  /\ MatchReturned /\ multi_video
  /\ Len(photo_paths) >= 2
  /\ \E v \in Range(video_paths) :
       /\ \E r \in Candidates(v) : r.photo = photo_paths[1] /\ r.score = Threshold
       /\ \E r \in Candidates(v) : r.photo = photo_paths[2] /\ r.score > Threshold
       /\ \A kj \in Assigned(v) : matches[kj[1]].photo = photo_paths[2]
       /\ Assigned(v) # {}

\* Position of a photo in photo_paths.
PhotoIndex(path) == CHOOSE i \in 1..Len(photo_paths) : photo_paths[i] = path

\* The photo a video goes to under multi_video: the first photo, in the
\* order given, among those with the video's highest candidate score.
WinsVideo(photo, video) ==
  \E r \in Candidates(video) :
    /\ r.photo = photo
    /\ \A q \in Candidates(video) :
         \/ q.score < r.score
         \/ q.score = r.score /\ PhotoIndex(photo) <= PhotoIndex(q.photo)

WonBy(photo) == {v \in Range(video_paths) : WinsVideo(photo, v)}

\* C12: in image mode the videos won by a photo are emitted in ascending
\* order of video file name; a photo that won one video gets an empty
\* sub_sequence, a photo that won two or more gets a, b, c, ... in that
\* order, and a photo that won none is in no pair.
C12_GroupByFileName ==
  (mode = "image" /\ Returned) =>
    \A f \in Range(photos) :
      LET group == PairsOf(f)
      IN  /\ {group[i].video.path : i \in 1..Len(group)} = WonBy(f.path)
          /\ Len(group) = Cardinality(WonBy(f.path))
          /\ \A i, j \in 1..Len(group) :
               i < j => NameKey(group[i].video.path) < NameKey(group[j].video.path)
          /\ Len(group) = 1 => group[1].sub_sequence = ""
          /\ Len(group) >= 2 =>
               \A i \in 1..Len(group) :
                 i <= Len(sub_labels) => group[i].sub_sequence = sub_labels[i]

\* One photo wins two videos listed against their file names, another photo
\* wins none.
C12_Witness ==
  /\ mode = "image" /\ Returned
  /\ Len(pairs) = 2
  /\ pairs[1].photo = pairs[2].photo
  /\ pairs[1].sub_sequence = "a" /\ pairs[2].sub_sequence = "b"
  /\ \E i, j \in 1..Len(media_files) :
       /\ i > j
       /\ media_files[i] = pairs[1].video
       /\ media_files[j] = pairs[2].video
  /\ \E f \in Range(photos) : WonBy(f.path) = {} /\ ~Matched(f)

\* The associations of the returned result: (photo, video, score).
Associations ==
  {[photo |-> matches[k].photo, video |-> matches[k].videos[j].video,
    score |-> matches[k].videos[j].score] :
     <<k, j>> \in {kj \in (1..Len(matches)) \X (1..MaxFiles) :
                    kj[2] <= Len(matches[kj[1]].videos)}}

\* C13: under either policy every returned association carries the score
\* computed for its photo and video, and that score is at or above the
\* threshold; a score equal to the threshold is kept as a candidate like any
\* higher one.
C13_ThresholdInclusive ==
  /\ MatchReturned =>
       \A a \in Associations : a \in similarity /\ a.score >= Threshold
  /\ \A r \in similarity :
       r.score >= Threshold =>
         /\ InScores(photo_video_scores, r.photo)
         /\ \E i \in 1..Len(ScoresOf(photo_video_scores, r.photo)) :
              ScoresOf(photo_video_scores, r.photo)[i] =
                [video |-> r.video, score |-> r.score]

\* The 1:1 policy returns an association whose score is exactly the
\* threshold, while a pair that scored below it is left out.
C13_Witness ==
  /\ MatchReturned /\ ~multi_video
  /\ \E a \in Associations : a.score = Threshold
  /\ \E r \in similarity : r.score < Threshold /\ r \notin Associations

\* The videos claimed by the photos that come before the given one.
ClaimedBefore(photo) ==
  {a.video : a \in {b \in Associations : PhotoIndex(b.photo) < PhotoIndex(photo)}}

\* The candidates of a photo that no earlier photo has claimed.
Available(photo) ==
  {r \in similarity :
     /\ r.photo = photo
     /\ r.score >= Threshold
     /\ r.video \notin ClaimedBefore(photo)}

\* C14: with multi_video unset the photos are served in the order given; each
\* gets at most one video, one with its highest score among its candidates
\* that no earlier photo claimed, and a claimed video is never given to a
\* later photo, whatever that photo's score for it.
C14_FirstComeFirstServed ==
  (MatchReturned /\ ~multi_video) =>
    /\ \A k \in 1..Len(matches) : Len(matches[k].videos) = 1
    /\ \A k, l \in 1..Len(matches) :
         k < l => /\ PhotoIndex(matches[k].photo) < PhotoIndex(matches[l].photo)
                  /\ matches[k].videos[1].video # matches[l].videos[1].video
    /\ \A i \in 1..Len(photo_paths) :
         LET mine == {a \in Associations : a.photo = photo_paths[i]}
         IN  IF Available(photo_paths[i]) = {}
               THEN mine = {}
               ELSE /\ Cardinality(mine) = 1
                    /\ mine \subseteq Available(photo_paths[i])
                    /\ \A a \in mine :
                         \A r \in Available(photo_paths[i]) : r.score <= a.score

\* The first photo claims a video at the threshold; the second photo scores
\* higher against that video and does not get it.
C14_Witness ==
  /\ MatchReturned /\ ~multi_video
  /\ Len(photo_paths) >= 2
  /\ \E a \in Associations :
       /\ a.photo = photo_paths[1]
       /\ a.score = Threshold
       /\ \E r \in similarity :
            r.photo = photo_paths[2] /\ r.video = a.video /\ r.score > a.score
       /\ \A b \in Associations : b.video = a.video => b = a

\* A scan_media_files call returns its list.
ScanReturns == scans' = scans + 1 /\ pc' # "error"

\* The file carries no instant the extraction can deliver: no tag value
\* parses, or the tool for its kind is missing or fails.
NoEmbeddedInstant(entry) ==
  \/ \A i \in 1..Len(entry.embedded) : entry.embedded[i] \notin Nat
  \/ tool \in {"missing", "error"}
  \/ tool = "timeout" /\ entry.path.ext = VIDEO_EXT

FilesystemTime(entry) ==
  IF has_birthtime THEN entry.st_birthtime ELSE entry.st_mtime

\* The MediaFiles a scan result holds for a path.
Scanned(files, path) == {k \in 1..Len(files) : files[k].path = path}

OneMediaFileEach(files) ==
  /\ \A i \in 1..Len(directory) :
       Cardinality(Scanned(files, directory[i].path)) =
         IF Supported(directory[i]) THEN 1 ELSE 0
  /\ Len(files) = Cardinality({i \in 1..Len(directory) : Supported(directory[i])})

FallsBack(files, entry) ==
  \A k \in Scanned(files, entry.path) :
    /\ files[k].created_time = FilesystemTime(entry)
    /\ files[k].time_source = "filesystem"

\* C16 as stated: in the list a scan returns, every supported file of the
\* directory has exactly one MediaFile, and a file without a readable
\* embedded instant has the filesystem time and the source 'filesystem'.
C16_FallbackInEveryScan ==
  [][ScanReturns =>
       /\ OneMediaFileEach(media_files')
       /\ \A i \in 1..Len(directory) :
            (Supported(directory[i]) /\ NoEmbeddedInstant(directory[i])) =>
              FallsBack(media_files', directory[i])]_vars

\* C16, amended: the same, for the files whose extraction ran during the
\* scan; a path still in the cache keeps the cached extraction result.
C16_FallbackWhenExtracted ==
  [][ScanReturns =>
       /\ OneMediaFileEach(media_files')
       /\ \A i \in 1..Len(directory) :
            (/\ Supported(directory[i])
             /\ NoEmbeddedInstant(directory[i])
             /\ directory[i].path \in fresh') =>
              FallsBack(media_files', directory[i])]_vars

\* A scan has returned a video whose only tag value does not parse, with
\* its filesystem time, next to an entry it skipped.
C16_Witness ==
  /\ scans > 0 /\ pc = "scan" /\ edits = 0
  /\ Len(media_files) < Len(directory)
  /\ \E i \in 1..Len(directory) :
       /\ Supported(directory[i])
       /\ directory[i].path.ext = VIDEO_EXT
       /\ directory[i].embedded = << Unparseable >>
       /\ directory[i].path \in fresh
       /\ \E k \in Scanned(media_files, directory[i].path) :
            /\ media_files[k].time_source = "filesystem"
            /\ media_files[k].created_time = directory[i].st_mtime

\* C17: scan_media_files on a path that does not exist fails with the
\* directory-not-found error before any file is examined and without a
\* list, and no other error ends a run.
C17_OnlyDirectoryNotFound ==
  /\ (input_kind = "missing" /\ scans > 0) =>
       /\ pc = "error" /\ error = "FileNotFoundError"
       /\ media_files = << >>
       /\ fresh = {} /\ exif_cache = << >> /\ video_cache = << >>
  /\ pc = "error" => input_kind = "missing"

\* Position of a path in the directory enumeration.
EnumIndex(path) == CHOOSE i \in 1..Len(directory) : directory[i].path = path

\* C18: the list scan_media_files returned is in ascending created_time,
\* and files with equal created_time stand in enumeration order.
C18_AscendingStable ==
  \A k, l \in 1..Len(media_files) :
    k < l =>
      \/ media_files[k].created_time < media_files[l].created_time
      \/ /\ media_files[k].created_time = media_files[l].created_time
         /\ EnumIndex(media_files[k].path) < EnumIndex(media_files[l].path)

\* The scan moved the second entry ahead of the first, which has a later
\* instant.
C18_Witness ==
  /\ scans > 0 /\ pc = "scan"
  /\ Len(media_files) = 2
  /\ EnumIndex(media_files[1].path) = 2
  /\ media_files[1].created_time < media_files[2].created_time

\* C19: between two clear_cache calls every resolution of a path gives the
\* (instant, source) of its first resolution, whatever was resolved or
\* edited in between, and no resolution after the first runs the
\* extraction again.
C19_MemoizedUntilCleared ==
  /\ reread = {}
  /\ \A k \in 1..Len(media_files) :
       \A r \in resolved :
         r.path = media_files[k].path =>
           /\ r.created_time = media_files[k].created_time
           /\ r.time_source = media_files[k].time_source

\* C20: get_media_datetime raises for no file the scanner hands it: with
\* the tool missing, failing or timing out, or a value that does not parse,
\* the scan still returns, and every supported file has an instant and a
\* source in the result.
C20_ResolverNeverRaises ==
  /\ error # "get_media_datetime"
  /\ (input_kind = "dir" /\ scans > 0) =>
       /\ pc = "scan"
       /\ \A i \in 1..Len(directory) :
            Supported(directory[i]) =>
              \E k \in Scanned(media_files, directory[i].path) :
                /\ media_files[k].created_time \in Nat
                /\ media_files[k].time_source \in
                     {"exif", "video_meta", "filesystem"}

\* exifread is missing: the scan returned a photo that carries an instant
\* with its filesystem time.
C20_Witness ==
  /\ scans > 0 /\ pc = "scan" /\ tool = "missing"
  /\ \E i \in 1..Len(directory) :
       /\ directory[i].path.ext = IMAGE_EXT
       /\ directory[i].embedded = << MaxTime >>
       /\ \E k \in Scanned(media_files, directory[i].path) :
            /\ media_files[k].time_source = "filesystem"
            /\ media_files[k].created_time = 0

\* C15: two runs of scan_media_files and the same pairing function on an
\* unchanged directory, with or without clear_cache in between, return
\* lists equal element by element in photo path, video path, sequence and
\* sub_sequence.
C15_SecondRunEqualsFirst ==
  (run = 2 /\ pc = "done") =>
    /\ Len(pairs) = Len(first_pairs)
    /\ \A i \in 1..Len(pairs) :
         /\ pairs[i].photo.path = first_pairs[i].photo.path
         /\ pairs[i].video.path = first_pairs[i].video.path
         /\ pairs[i].sequence = first_pairs[i].sequence
         /\ pairs[i].sub_sequence = first_pairs[i].sub_sequence

\* The second run, scanned from the cache alone, has returned a pair whose
\* photo has its instant from EXIF.
C15_Witness ==
  /\ run = 2 /\ pc = "done"
  /\ fresh = {}
  /\ exif_cache # << >>
  /\ \E i \in 1..Len(pairs) : pairs[i].photo.time_source = "exif"

\* C21: in image mode a video without a frame and a photo that does not load
\* are in no FilePair and end no pass, and the pairs of the other files are
\* those of a call on the input without the failing files.
C21_FailuresIsolated ==
  /\ pc # "error"
  /\ \A i \in 1..Len(pairs) :
       pairs[i].photo.path \notin Failed /\ pairs[i].video.path \notin Failed
  /\ (run = 2 /\ pc = "done") =>
       /\ Len(pairs) = Len(first_pairs)
       /\ \A i \in 1..Len(pairs) :
            /\ pairs[i].photo.path = first_pairs[i].photo.path
            /\ pairs[i].video.path = first_pairs[i].video.path
            /\ pairs[i].sequence = first_pairs[i].sequence
            /\ pairs[i].sub_sequence = first_pairs[i].sub_sequence

\* A photo and a video failed in the first call; the call without them has
\* returned the same pair.
C21_Witness ==
  /\ run = 2 /\ pc = "done"
  /\ Len(pairs) >= 1
  /\ \E p, v \in Failed : p.ext = IMAGE_EXT /\ v.ext = VIDEO_EXT

\* The call of split_video has ended, by a return or by an exception.
SplitEnded == mode = "split" /\ pc \in {"done", "error"}

\* C22 as stated: split_video fails by returning an empty list, writing no
\* output file, when the segment count is outside [2,10] or when the duration
\* of the video cannot be determined.
C22_SplitFailsEmpty ==
  (SplitEnded /\ (\/ num_segments < MinSegments
                  \/ num_segments > MaxSegments
                  \/ duration = None)) =>
    /\ pc = "done"
    /\ output_files = << >>
    /\ written = {}

\* C22: a segment count outside [2,10] makes split_video raise ValueError
\* before anything is probed or written; an accepted count with a duration
\* that cannot be determined makes it return an empty list, no output file
\* written.
C22_SplitRaisesOrEmpty ==
  SplitEnded =>
    /\ (num_segments < MinSegments \/ num_segments > MaxSegments) =>
         (pc = "error" /\ error = "ValueError" /\ written = {})
    /\ (num_segments \in MinSegments..MaxSegments /\ duration = None) =>
         (pc = "done" /\ output_files = << >> /\ written = {})
    /\ pc = "error" => (num_segments \notin MinSegments..MaxSegments)

C22_Witness ==
  /\ SplitEnded
  /\ num_segments < MinSegments
  /\ pc = "error"
  /\ error = "ValueError"

\* C23: the pairing functions only read their input. No step of pair_files
\* (any mode) or of pair_files_by_time changes the media_files list, its
\* order or a field of a MediaFile; every MediaFile a FilePair refers to is
\* an element of the input as it was received; and the result list is empty
\* when the call starts, so every FilePair of it is made by that call.
C23_InputReadOnly ==
  [][/\ media_files' = media_files
     /\ \A i \in 1..Len(pairs') :
          /\ pairs'[i].photo \in Range(media_files)
          /\ pairs'[i].video \in Range(media_files)
     /\ pc = "start" => pairs = << >>]_vars

C23_Witness ==
  /\ Returned
  /\ mode = "by_time"
  /\ Len(media_files) = MaxFiles
  /\ \E i \in 1..Len(pairs) :
       pairs[i].video.created_time # pairs[i].photo.created_time

\* The video lies in the window [photo.created_time, photo.created_time + T]
\* of some photo of the input.
InSomeWindow(video) ==
  \E i \in 1..Len(photos) :
    /\ photos[i].created_time <= video.created_time
    /\ video.created_time <= photos[i].created_time + time_tolerance_seconds

\* C27: when pair_files_by_time has returned, every video that lies in the
\* window of at least one photo is paired; a video left unmatched lies
\* outside the window of every photo, whatever the order of the input.
C27_WindowedVideoPaired ==
  (Returned /\ mode = "by_time") =>
    \A j \in 1..Len(videos) :
      InSomeWindow(videos[j]) =>
        \E k \in 1..Len(pairs) : pairs[k].video.path = videos[j].path

C27_Witness ==
  /\ Returned
  /\ mode = "by_time"
  /\ \E j \in 1..Len(videos) :
       /\ ~InSomeWindow(videos[j])
       /\ \A k \in 1..Len(pairs) : pairs[k].video.path # videos[j].path
  /\ \E k \in 1..Len(pairs) : pairs[k].sub_sequence = "b"
  /\ \E i, j \in 1..Len(media_files) :
       i < j /\ media_files[i].created_time > media_files[j].created_time

\* The photos that share the video's highest candidate score.
BestPhotos(video) ==
  {r.photo : r \in {q \in Candidates(video) :
                      \A o \in Candidates(video) : o.score <= q.score}}

\* C28: with multi_video set, a video whose highest score is shared by two
\* or more photos goes to the one of them that comes first in photo_paths,
\* so the photo of every assigned video is fixed by the order of photo_paths
\* and the scores.
C28_TieToFirstPhoto ==
  (MatchReturned /\ multi_video) =>
    \A v \in Range(video_paths) :
      \A kj \in Assigned(v) :
        /\ matches[kj[1]].photo \in BestPhotos(v)
        /\ \A p \in BestPhotos(v) :
             PhotoIndex(matches[kj[1]].photo) <= PhotoIndex(p)

C28_Witness ==
  /\ MatchReturned /\ multi_video
  /\ \E v \in Range(video_paths) :
       /\ Cardinality(BestPhotos(v)) >= 2
       /\ photo_paths[1] \notin BestPhotos(v)
       /\ Candidates(v) # {r \in Candidates(v) : r.photo \in BestPhotos(v)}
       /\ Assigned(v) # {}

\* The name the video of a pair was copied to.
VideoDestination(pair) ==
  LET r == CHOOSE r \in names : r.photo = pair.photo.path
  IN  NewName(NameFor(pair, r.name), pair, pair.video.path.ext)

\* The video files of the output directory.
OutputVideos == {e \in output_dir : e.content.ext = VIDEO_EXT}

\* The command-line run has ended after copying every pair without an error.
CopiedAll ==
  /\ mode = "image" /\ pc = "exit"
  /\ ~dry_run
  /\ pairs # << >>
  /\ stats.errors = 0

\* C29: in the command-line pipeline every FilePair's video is copied to a
\* destination name of its own, so that the output directory ends up with
\* one video file per FilePair, the FilePairs of a 1:N group included.
C29_OneVideoPerPair ==
  CopiedAll =>
    /\ \A i, j \in 1..Len(pairs) :
         i # j => VideoDestination(pairs[i]) # VideoDestination(pairs[j])
    /\ Cardinality(OutputVideos) = Len(pairs)

\* No preview is under way: do_preview has ended and the event loop has run
\* every callback it left.
GuiQuiescent == preview_pc = "idle" /\ after_queue = << >>

\* C24: after any sequence of preview, select/swap and move operations,
\* self.pairs is the pairing of the current lists: min(len(photos),
\* len(videos)) entries, the i-th pairing the i-th photo with the i-th video
\* under sequence i, nothing of an earlier ordering left.
C24_PairsRebuilt ==
  GuiQuiescent =>
    /\ Len(self_pairs) = Min(Len(self_photos), Len(self_videos))
    /\ \A i \in 1..Len(self_pairs) :
         /\ self_pairs[i].photo = self_photos[i]
         /\ self_pairs[i].video = self_videos[i]
         /\ self_pairs[i].sequence = i

\* The handlers that reorder the lists.
ReorderOps == {"select_photo", "select_video", "move_photo", "move_video"}

\* The same elements, each once.
IsPermutation(s, t) ==
  /\ Len(s) = Len(t)
  /\ Range(s) = Range(t)
  /\ Cardinality(Range(s)) = Len(s)

\* after is before with the elements at a and b exchanged, nothing else moved
Exchanged(before, after, a, b) ==
  /\ Len(after) = Len(before)
  /\ a \in 1..Len(before) /\ b \in 1..Len(before)
  /\ after[a] = before[b]
  /\ after[b] = before[a]
  /\ \A k \in 1..Len(before) : k \notin {a, b} => after[k] = before[k]

C26_ForegroundOwnsLists ==
  [][/\ last_op'.op = "do_preview" =>
          (self_photos' = self_photos /\ self_videos' = self_videos)
     /\ photo_items' = self_photos'
     /\ video_items' = self_videos']_vars

\* C30: at most one do_process is active at any time. A _run that is called
\* while is_processing is set returns and changes nothing; whenever a
\* do_process is started is_processing is set, and it stays set until the
\* thread resets it; every thread that was started ends, whether its
\* processing succeeded or raised, and at its end is_processing is false and
\* both buttons are enabled.
C30_OneWorker ==
  /\ [](/\ Cardinality(Active) <= 1
        /\ \A w \in 1..Len(workers) :
             /\ workers[w].pc \in {"mkdir", "loop", "reset"} => is_processing
             /\ workers[w].pc = "ended" =>
                  workers[w].ended_with = Snapshot(FALSE, "normal", "normal"))
  /\ [][/\ Len(workers') > Len(workers) => is_processing'
        /\ (last_op'.op = "run" /\ is_processing) =>
             UNCHANGED << self_photos, self_videos, self_pairs, is_processing,
                          run_btn, preview_btn, workers, updating >>]_vars
  /\ \A w \in 1..MaxRuns :
       (w <= Len(workers)) ~> (w <= Len(workers) /\ workers[w].pc = "ended")

=============================================================================
